---- MODULE Spec2Model ----
(***************************************************************************)
(* A model of the pseudopeople noising engine: DatasetData.get_noised_data *)
(* (src/src/pseudopeople/dataset.py) walking the NOISE_TYPES catalog, the  *)
(* row- and column-noise wrappers (entity_types.py), the selection of the  *)
(* rows to noise (utilities.py) and the row-noise functions                *)
(* (noise_functions.py).                                                   *)
(*                                                                         *)
(* Conventions.                                                            *)
(*  - A string is a sequence of one-character strings; NaN is the null     *)
(*    sentinel np.nan; a pandas Timestamp is <<"T", year, month, day>>.    *)
(*  - A probability is an exact fraction [n, d] (or not-a-number); the     *)
(*    configuration gives probabilities in thousandths.                    *)
(*  - The source files disagree on call signatures (RowNoiseType.__call__  *)
(*    takes four arguments and dataset.py passes two; the wrapper passes   *)
(*    ignore_rows_missing_columns where get_index_to_noise declares        *)
(*    is_column_noise).  Each function body is modelled from its own text  *)
(*    and every argument is bound by its role: `data` is the working       *)
(*    table, the columns checked for missing values are the wrapper's      *)
(*    required_cols, a noise function rewrites data.loc[to_noise_idx,      *)
(*    column_name], and the frame a row-noise function returns replaces    *)
(*    the working table.                                                   *)
(*  - vivarium's RandomnessStream is a keyed hash: the draw for            *)
(*    (seed, key, additional_key, index label) is a fixed but unknown      *)
(*    number of [0, 1).  `draws` holds the part of that function the       *)
(*    program has looked at so far.                                        *)
(***************************************************************************)
EXTENDS Integers, Sequences, FiniteSets, TLC

VARIABLES
    dataset_name,     \* DatasetData.dataset.name
    columns,          \* DatasetData.data.columns, in order
    index,            \* DatasetData.data.index: the labels of the rows left
    data,             \* DatasetData.data: row label -> column -> cell
    missingness,      \* DatasetData.missingness: row label -> column -> BOOLEAN
    seed,             \* the seed of DatasetData.randomness
    configuration,    \* configuration[dataset.name]: the dataset's node of the tree
    pc,               \* where get_noised_data is
    nt,               \* _noise_dataset: position in noise_types
    ci,               \* _noise_dataset: position in columns_to_noise
    draws,            \* the draws of the randomness stream looked at so far
    error,            \* the exception that ended the call, or NoError
    calls,            \* the noise-type applications made, in order
    last_call,        \* the last application: noise type, column, rows chosen
    input,            \* the arguments of the call: the table as it was handed in
    run,              \* 1: the first call; 2: the call repeated on the same input
    first_output,     \* what the first call returned
    demographic_probability,
                      \* what _get_census_omission_noise_levels gives a row whose
                      \* age, sex and race_ethnicity are filled in, in thousandths
    dtypes,           \* DatasetData.data.dtypes: column -> dtype name
    input_dtypes,     \* the dtypes of the table as it was handed in
    arguments,        \* a noise function called on its own: what it is called with
    returned,         \* a noise function called on its own: what it returned
    generators,       \* the generators the token-level noise functions have made
    noise_types,      \* get_noised_data: the noise types it is handed, in order
    scan              \* a per-string scan called on its own: its locals i, err, rng

vars == <<dataset_name, columns, index, data, missingness, seed, configuration,
          pc, nt, ci, draws, error, calls, last_call, input, run, first_output,
          demographic_probability, dtypes, input_dtypes, arguments, returned,
          generators, noise_types, scan>>

\* the state of DatasetData and of the call of get_noised_data
engine_vars == <<dataset_name, columns, index, data, missingness, seed, configuration,
                 pc, nt, ci, draws, error, calls, last_call, input, run,
                 first_output, demographic_probability, dtypes, input_dtypes,
                 generators, noise_types>>

-----------------------------------------------------------------------------
(* Bounds of the model *)

\* number of rows of an input table (labels 0 .. MaxRows - 1, a RangeIndex)
MaxRows == 2

\* number of noise types a configuration enables, rows and columns together
MaxEnabled == 2

-----------------------------------------------------------------------------
(* Values *)

NaN == <<"NaN">>
EmptyString == <<>>

\* a cell that is filled in
SomeValue == <<"v">>

\* a date of birth before it is formatted
SomeTimestamp == <<"T", 1987, 3, 14>>

RECURSIVE SeqOfSet(_)
\* the labels of an index in ascending order (a sorted pd.Index)
SeqOfSet(S) ==
    IF S = {} THEN <<>>
    ELSE LET m == CHOOSE x \in S : \A y \in S : x <= y
         IN <<m>> \o SeqOfSet(S \ {m})

Range(s) == {s[i] : i \in 1..Len(s)}

-----------------------------------------------------------------------------
(* Probabilities: exact fractions *)

RECURSIVE GCD(_, _)
GCD(a, b) == IF b = 0 THEN a ELSE GCD(b, a % b)

\* the fraction n/d in lowest terms (n >= 0, d > 0)
Frac(n, d) == LET g == GCD(n, d) IN [n |-> n \div g, d |-> d \div g, nan |-> FALSE]

\* float("nan")
NaNLevel == [n |-> 0, d |-> 1, nan |-> TRUE]

\* a probability of the configuration, given in thousandths
Thousandths(p) == Frac(p, 1000)

FracAdd(a, b) ==
    IF a.nan \/ b.nan THEN NaNLevel ELSE Frac(a.n * b.d + b.n * a.d, a.d * b.d)

FracMul(a, b) ==
    IF a.nan \/ b.nan THEN NaNLevel ELSE Frac(a.n * b.n, a.d * b.d)

\* a / b for b > 0
FracDiv(a, b) ==
    IF a.nan \/ b.nan THEN NaNLevel ELSE Frac(a.n * b.d, a.d * b.n)

\* a < b; every comparison with not-a-number is false
FracLess(a, b) == ~a.nan /\ ~b.nan /\ a.n * b.d < b.n * a.d

-----------------------------------------------------------------------------
(* The catalog of noise types, in its declared order *)

RowNoiseType == "RowNoiseType"
ColumnNoiseType == "ColumnNoiseType"

NOISE_TYPES ==
    << [name |-> "omit_row",                   kind |-> RowNoiseType],
       [name |-> "do_not_respond",             kind |-> RowNoiseType],
       [name |-> "leave_blank",                kind |-> ColumnNoiseType],
       [name |-> "choose_wrong_option",        kind |-> ColumnNoiseType],
       [name |-> "copy_from_household_member", kind |-> ColumnNoiseType],
       [name |-> "swap_month_and_day",         kind |-> ColumnNoiseType],
       [name |-> "write_wrong_zipcode_digits", kind |-> ColumnNoiseType],
       [name |-> "misreport_age",              kind |-> ColumnNoiseType],
       [name |-> "write_wrong_digits",         kind |-> ColumnNoiseType],
       [name |-> "use_nickname",               kind |-> ColumnNoiseType],
       [name |-> "use_fake_name",              kind |-> ColumnNoiseType],
       [name |-> "make_phonetic_errors",       kind |-> ColumnNoiseType],
       [name |-> "make_ocr_errors",            kind |-> ColumnNoiseType],
       [name |-> "make_typos",                 kind |-> ColumnNoiseType] >>

NoiseTypeNames(kind) ==
    {NOISE_TYPES[i].name : i \in {j \in 1..Len(NOISE_TYPES) : NOISE_TYPES[j].kind = kind}}

\* the position of a noise type in the catalog
CatalogPosition(name) == CHOOSE i \in 1..Len(NOISE_TYPES) : NOISE_TYPES[i].name = name

-----------------------------------------------------------------------------
(* Datasets: the schema restricted to the columns the model follows *)

YYYYMMDD == "YYYYMMDD"
MM_DD_YYYY == "MM_DD_YYYY"
MMDDYYYY == "MMDDYYYY"

DATASETS ==
    [ decennial_census |->
        [columns |-> <<"age", "sex", "race_ethnicity">>, date_format |-> MM_DD_YYYY],
      women_infants_and_children |->
        [columns |-> <<"sex", "race_ethnicity">>, date_format |-> MMDDYYYY],
      social_security |->
        [columns |-> <<"first_name", "date_of_birth">>, date_format |-> YYYYMMDD] ]

DatasetNames == DOMAIN DATASETS

\* the columns _reformat_dates_for_noising formats, when the table has them
DateColumns == {"date_of_birth", "ssa_event_date", "copy_date_of_birth", "copy_ssa_event_date"}

\* DtypeNames
CATEGORICAL == "category"
DATETIME == "datetime64[ns]"
OBJECT == "object"

\* Column.dtype_name: the dtype the schema declares for a column
SchemaDtype(column) ==
    IF column \in {"sex", "race_ethnicity"} THEN CATEGORICAL ELSE OBJECT

-----------------------------------------------------------------------------
(* The configuration of the dataset being noised *)

RowNoiseConfiguration == configuration.row_noise
ColumnNoiseConfiguration == configuration.column_noise

\* the columns listed under column_noise, in the order of the tree
ConfiguredColumns ==
    [i \in 1..Len(ColumnNoiseConfiguration) |-> ColumnNoiseConfiguration[i].column]

\* column_noise[column]
ColumnNode(column) ==
    LET i == CHOOSE j \in 1..Len(ColumnNoiseConfiguration) :
                 ColumnNoiseConfiguration[j].column = column
    IN ColumnNoiseConfiguration[i].noise

-----------------------------------------------------------------------------
(* The inputs of a call *)

Rows == 0..(MaxRows - 1)

\* a column of a configuration that the table does not have
AbsentColumn == "employer_name"

\* a column of the input table that is not in the schema
ExtraColumn == "extra_column"

\* the columns of the table handed in: the schema's, and for one dataset one more
InputColumns(name) ==
    IF name = "women_infants_and_children"
    THEN DATASETS[name].columns \o <<ExtraColumn>>
    ELSE DATASETS[name].columns

FilledCell(column) == IF column \in DateColumns THEN SomeTimestamp ELSE SomeValue

AllPresentRow(name) ==
    [c \in Range(InputColumns(name)) |-> FilledCell(c)]

\* a row: everything filled in, or one cell missing: "" in the first column,
\* NaN in the last one, "" in the column the schema does not have
InputRows(name) ==
    LET cs == InputColumns(name)
    IN {AllPresentRow(name)} \cup
       {[AllPresentRow(name) EXCEPT ![cs[Len(cs)]] = NaN]} \cup
       {[AllPresentRow(name) EXCEPT ![c] = EmptyString] :
           c \in ({cs[1], ExtraColumn} \cap Range(cs)) \ DateColumns}

AllPresentTable(name) == [r \in Rows |-> AllPresentRow(name)]

\* the dtypes of the table handed in: a date column holds Timestamps, the
\* other columns of the schema hold strings, as objects or as categoricals
InputDtypes(name, categorical) ==
    [c \in Range(InputColumns(name)) |->
        IF c \in DateColumns THEN DATETIME
        ELSE IF categorical /\ c \in Range(DATASETS[name].columns) THEN CATEGORICAL
        ELSE OBJECT]

\* the tables handed in
InputTables(name) == [Rows -> InputRows(name)]

\* the columns a configuration may list, in the order the tree lists them
ConfigurationColumns(name) ==
    LET cs == InputColumns(name)
    IN <<cs[Len(cs)], cs[1], AbsentColumn>>

Entry(kind, column, name, p) ==
    [kind |-> kind, column |-> column, name |-> name, p |-> p]

EntryKey(e) == <<e.kind, e.column, e.name>>

RowEntries(ps) ==
    {Entry(RowNoiseType, "-", n, p) : n \in NoiseTypeNames(RowNoiseType), p \in ps}

ColumnEntries(cs, ns, ps) ==
    {Entry(ColumnNoiseType, c, n, p) : c \in cs, n \in ns, p \in ps}

RECURSIVE EntrySets(_, _)
\* the sets of at most k entries, no two for the same noise type of the same column
EntrySets(S, k) ==
    IF k = 0 THEN {{}}
    ELSE LET smaller == EntrySets(S, k - 1)
         IN smaller \cup
            UNION {{T \cup {e} :
                        e \in {x \in S : \A y \in T : EntryKey(y) # EntryKey(x)}} :
                   T \in smaller}

\* the configuration node of the dataset that lists the entries E
BuildConfiguration(name, E) ==
    LET rows == {e \in E : e.kind = RowNoiseType}
        cols == {e \in E : e.kind = ColumnNoiseType}
        listed == SelectSeq(ConfigurationColumns(name),
                            LAMBDA c : \E e \in cols : e.column = c)
        node(c) ==
            [n \in {e.name : e \in {x \in cols : x.column = c}} |->
                [cell_probability |->
                    (CHOOSE e \in cols : e.column = c /\ e.name = n).p]]
    IN [row_noise |->
            [n \in {e.name : e \in rows} |->
                [row_probability |-> (CHOOSE e \in rows : e.name = n).p]],
        column_noise |->
            [i \in 1..Len(listed) |-> [column |-> listed[i], noise |-> node(listed[i])]]]

\* Configurations over the whole catalog; probabilities 0 and 1
CatalogConfigurations(name) ==
    LET cs == InputColumns(name)
        S == RowEntries({0, 1000}) \cup
             ColumnEntries({cs[1], cs[Len(cs)]}, NoiseTypeNames(ColumnNoiseType), {1000})
    IN {BuildConfiguration(name, E) : E \in EntrySets(S, MaxEnabled)}

\* Configurations of at most two column-noise types, for tables whose string
\* columns are handed in as categoricals
CategoricalConfigurations(name) ==
    LET cs == InputColumns(name)
        S == ColumnEntries({cs[1], cs[Len(cs)]}, NoiseTypeNames(ColumnNoiseType), {1000})
    IN {BuildConfiguration(name, E) : E \in EntrySets(S, 2)}

\* Configurations of at most two noise types that choose some rows or cells
\* and not others
PairConfigurations(name) ==
    LET S == {Entry(RowNoiseType, "-", "omit_row", 500),
              Entry(RowNoiseType, "-", "do_not_respond", 15)} \cup
             ColumnEntries(Range(ConfigurationColumns(name)),
                           {"leave_blank", "make_typos"}, {500})
    IN {BuildConfiguration(name, E) : E \in EntrySets(S, 2)}

NoError == [type |-> "none", dataset |-> "-", missing_columns |-> <<>>]

NoOutput == [seed |-> 0, columns |-> <<>>, index |-> {}, data |-> <<>>]
NoCall == [noise_type |-> "-", column |-> "-", to_noise_idx |-> {},
           noise_function |-> FALSE]

\* no noise function is called on its own
NoArguments == [function |-> "-"]
NotReturned == [type |-> "-"]

\* no string is being scanned
NoScan == [i |-> 0, err |-> <<>>, rng |-> [stream |-> <<>>, position |-> 0],
           drawn |-> <<>>]

\* DatasetData.is_missing
is_missing(table) ==
    [r \in DOMAIN table |->
        [c \in DOMAIN table[r] |-> table[r][c] = EmptyString \/ table[r][c] = NaN]]

\* DatasetData.__init__ on a table and a seed, at the start of get_noised_data
Construct(name, table, s) ==
    /\ dataset_name' = name
    /\ columns' = InputColumns(name)
    /\ index' = DOMAIN table
    /\ data' = table
    /\ missingness' = is_missing(table)
    /\ dtypes' = input_dtypes
    /\ seed' = s
    /\ pc' = "clean"
    /\ nt' = 1
    /\ ci' = 1
    /\ error' = NoError
    /\ calls' = <<>>
    /\ last_call' = NoCall
    /\ generators' = <<>>

\* a descriptor that is neither a RowNoiseType nor a ColumnNoiseType
OtherType == "OtherType"
other_noise_type == [name |-> "other", kind |-> OtherType]

\* the catalog with such a descriptor put in at a position
InsertAt(seq, position, x) ==
    SubSeq(seq, 1, position - 1) \o <<x>> \o SubSeq(seq, position, Len(seq))

InitOn(name, table, cfg, dp, categorical, types) ==
    /\ noise_types = types
    /\ dataset_name = name
    /\ columns = InputColumns(name)
    /\ index = DOMAIN table
    /\ data = table
    /\ missingness = is_missing(table)
    /\ seed = 0
    /\ configuration = cfg
    /\ pc = "clean"
    /\ nt = 1
    /\ ci = 1
    /\ draws = [k \in {} |-> Frac(0, 1)]
    /\ error = NoError
    /\ calls = <<>>
    /\ last_call = NoCall
    /\ input = table
    /\ run = 1
    /\ first_output = NoOutput
    /\ demographic_probability = dp
    /\ dtypes = InputDtypes(name, categorical)
    /\ input_dtypes = InputDtypes(name, categorical)
    /\ generators = <<>>

\* noise_data hands get_noised_data the catalog NOISE_TYPES
InitWith(name, table, cfg, dp, categorical) ==
    InitOn(name, table, cfg, dp, categorical, NOISE_TYPES)

\* where in the list the descriptor of neither kind stands: first, after the
\* row noise types, last
OtherPositions == {1, 3, Len(NOISE_TYPES) + 1}

DemographicProbabilities == {0, 500, 1000}

\* the demographic model is read only by do_not_respond
UsesDemography(cfg) == "do_not_respond" \in DOMAIN cfg.row_noise

Init ==
    /\ arguments = NoArguments
    /\ returned = NotReturned
    /\ scan = NoScan
    /\ \E name \in DatasetNames :
        \/ \E cfg \in CatalogConfigurations(name) :
               InitWith(name, AllPresentTable(name), cfg, 500, FALSE)
        \/ \E cfg \in CategoricalConfigurations(name) :
               InitWith(name, AllPresentTable(name), cfg, 500, TRUE)
        \/ \E table \in InputTables(name), cfg \in PairConfigurations(name) :
               \E dp \in (IF UsesDemography(cfg) /\ name = "decennial_census"
                          THEN DemographicProbabilities ELSE {500}) :
                   InitWith(name, table, cfg, dp, FALSE)
        \/ /\ name = "decennial_census"
           /\ \E cfg \in CategoricalConfigurations(name), position \in OtherPositions :
                  InitOn(name, AllPresentTable(name), cfg, 500, FALSE,
                         InsertAt(NOISE_TYPES, position, other_noise_type))

-----------------------------------------------------------------------------
(* The randomness stream *)

\* the draws a stream can give: numbers of [0, 1)
DrawValues == {Frac(0, 1), Frac(999, 1000)}

\* what identifies a draw: the seed, the stream's key, the additional key, the label
DrawKey(additional_key, label) == <<seed, dataset_name, additional_key, label>>

\* a stream that is not seeded: every draw is a new one
FreshDraws(k) == DrawValues

\* get_randomness_stream: a stream seeded with `seed` gives the same draw for
\* the same key whenever it is asked
DrawOutcomes(k) == IF k \in DOMAIN draws THEN {draws[k]} ELSE DrawValues

\* a draw decides between chosen and not chosen when the probability lies
\* strictly between 0 and 1
Decisive(level) == FracLess(Frac(0, 1), level) /\ FracLess(level, Frac(1, 1))

\* the draws for the labels of `labels` under one additional key; where the
\* draw decides nothing, one value stands for all the others
Draws(additional_key, labels, noise_level) ==
    {u \in [labels -> DrawValues] :
        \A r \in labels :
            /\ u[r] \in DrawOutcomes(DrawKey(additional_key, r))
            /\ Decisive(noise_level[r]) \/ u[r] = Frac(0, 1)}

Remember(additional_key, u) ==
    LET new == {DrawKey(additional_key, r) : r \in DOMAIN u}
    IN [k \in DOMAIN draws \cup new |->
            IF k \in DOMAIN draws THEN draws[k] ELSE u[k[4]]]

\* a selection that also takes the draws equal to the probability
filter_at_most_probability(u, eligible, noise_level) ==
    {r \in eligible : ~FracLess(noise_level[r], u[r]) /\ ~noise_level[r].nan}

\* RandomnessStream.filter_for_probability: the labels whose draw is below
\* the probability (noise_level: label -> probability)
filter_for_probability(u, eligible, noise_level) ==
    {r \in eligible : FracLess(u[r], noise_level[r])}

\* a selection that does not look for missing values
eligible_whatever_is_missing(required_cols) == index

\* a selection that looks for missing values in the input, not in the table
\* as it is now
eligible_in_input(required_cols) ==
    index \ {r \in index : \E c \in required_cols :
                 input[r][c] = NaN \/ input[r][c] = EmptyString}

\* get_index_to_noise, the rows that may be chosen: for column noise
\* (required_cols not empty) the rows with no NaN and no "" in those columns,
\* for row noise every row
eligible_for_noise_idx(required_cols) ==
    IF required_cols # {}
    THEN LET missing_idx ==
                 {r \in index : \E c \in required_cols :
                      data[r][c] = NaN \/ data[r][c] = EmptyString}
         IN index \ missing_idx
    ELSE index

-----------------------------------------------------------------------------
(* _noise_dataset: what is applied, and in which order *)

\* row noise applied whatever the configuration lists
RowNoiseAlways(name) == TRUE

\* a row-noise type is applied when the configuration lists it
RowNoiseEnabled(name) == name \in DOMAIN RowNoiseConfiguration

\* the columns a column-noise type is applied to
columns_to_noise(name) ==
    SelectSeq(ConfiguredColumns,
              LAMBDA col : col \in Range(columns) /\ name \in DOMAIN ColumnNode(col))

RECURSIVE Flatten(_)
Flatten(ss) == IF ss = <<>> THEN <<>> ELSE Head(ss) \o Flatten(Tail(ss))

\* what one pass of the loop over the noise type at position n applies
\* a loop that passes over what is of neither kind
silently_skipped(n) == <<>>

\* the else branch of the loop: one step, which raises
neither_kind(n) == <<[nt |-> n, ci |-> 0]>>

ApplicationsOf(n) ==
    IF noise_types[n].kind = RowNoiseType
    THEN IF RowNoiseEnabled(noise_types[n].name) THEN <<[nt |-> n, ci |-> 0]>> ELSE <<>>
    ELSE IF noise_types[n].kind = ColumnNoiseType
    THEN [k \in 1..Len(columns_to_noise(noise_types[n].name)) |-> [nt |-> n, ci |-> k]]
    ELSE neither_kind(n)

IndexOf(seq, x) == CHOOSE i \in 1..Len(seq) : seq[i] = x

\* the applications of a loop over the columns with the noise types inside
ScheduleColumnMajor ==
    LET row_types == {n \in 1..Len(noise_types) : noise_types[n].kind = RowNoiseType}
        other_types == {n \in 1..Len(noise_types) :
                           noise_types[n].kind \notin {RowNoiseType, ColumnNoiseType}}
        of_column(col) ==
            LET ns == {n \in 1..Len(noise_types) :
                          /\ noise_types[n].kind = ColumnNoiseType
                          /\ col \in Range(columns_to_noise(noise_types[n].name))}
            IN [k \in 1..Cardinality(ns) |->
                   [nt |-> SeqOfSet(ns)[k],
                    ci |-> IndexOf(columns_to_noise(noise_types[SeqOfSet(ns)[k]].name), col)]]
    IN Flatten([k \in 1..Cardinality(row_types) |-> ApplicationsOf(SeqOfSet(row_types)[k])])
       \o Flatten([j \in 1..Len(ConfiguredColumns) |-> of_column(ConfiguredColumns[j])])
       \o Flatten([k \in 1..Cardinality(other_types) |->
                      ApplicationsOf(SeqOfSet(other_types)[k])])

\* the applications of the loop `for noise_type in noise_types`, in order
Schedule == Flatten([n \in 1..Len(noise_types) |-> ApplicationsOf(n)])

EndOfSchedule == [nt |-> Len(noise_types) + 1, ci |-> 0]

FirstApplication == IF Schedule = <<>> THEN EndOfSchedule ELSE Schedule[1]

NextApplication ==
    LET schedule == Schedule
        here == CHOOSE i \in 1..Len(schedule) : schedule[i] = [nt |-> nt, ci |-> ci]
    IN IF here = Len(schedule) THEN EndOfSchedule ELSE schedule[here + 1]

Applying(name) ==
    /\ pc = "noise"
    /\ nt <= Len(noise_types)
    /\ noise_types[nt].name = name

Advance ==
    LET next == NextApplication
    IN /\ nt' = next.nt
       /\ ci' = next.ci

Raise(e) ==
    /\ pc' = "error"
    /\ error' = e
    /\ UNCHANGED <<nt, ci>>

-----------------------------------------------------------------------------
(* get_noised_data, step by step *)

\* _clean_input_data: "" becomes NaN in every column of the schema
CleanCell(v) == IF v = EmptyString THEN NaN ELSE v

_clean_input_data(table) ==
    [r \in DOMAIN table |->
        [c \in DOMAIN table[r] |->
            IF c \in Range(DATASETS[dataset_name].columns)
            THEN CleanCell(table[r][c]) ELSE table[r][c]]]

\* _clean_input_data, the dtypes: a categorical column that the schema
\* declares as object becomes a column of strings
cleaned_dtypes ==
    [c \in DOMAIN dtypes |->
        IF /\ c \in Range(DATASETS[dataset_name].columns)
           /\ dtypes[c] = CATEGORICAL
           /\ SchemaDtype(c) = OBJECT
        THEN OBJECT ELSE dtypes[c]]

CleanInputData ==
    /\ pc = "clean"
    /\ data' = _clean_input_data(data)
    /\ dtypes' = cleaned_dtypes
    /\ pc' = "reformat"
    /\ UNCHANGED <<dataset_name, columns, index, missingness, seed, configuration,
                   nt, ci, draws, error, calls, last_call, input, run, first_output,
                   demographic_probability,
                   input_dtypes, arguments, returned, generators,
                   noise_types, scan>>

Digit(d) == <<"0", "1", "2", "3", "4", "5", "6", "7", "8", "9">>[d + 1]

RECURSIVE IntToStr(_)
\* astype(str) of a number >= 0
IntToStr(n) == IF n < 10 THEN <<Digit(n)>> ELSE IntToStr(n \div 10) \o <<Digit(n % 10)>>

\* _zfill_fast: pad with desired_length zeroes, keep the last desired_length
_zfill_fast(str, desired_length) ==
    LET maximum_padding == [i \in 1..desired_length |-> "0"] \o str
    IN SubSeq(maximum_padding, Len(maximum_padding) - desired_length + 1,
              Len(maximum_padding))

\* the string a Timestamp becomes under a date format
FormatDate(ts, date_format) ==
    LET year_string == IntToStr(ts[2])
        month_string == _zfill_fast(IntToStr(ts[3]), 2)
        day_string == _zfill_fast(IntToStr(ts[4]), 2)
    IN CASE date_format = YYYYMMDD -> year_string \o month_string \o day_string
         [] date_format = MM_DD_YYYY ->
                month_string \o <<"/">> \o day_string \o <<"/">> \o year_string
         [] date_format = MMDDYYYY -> month_string \o day_string \o year_string

\* _reformat_dates_for_noising: the dates that are not NaN become strings
_reformat_dates_for_noising(table) ==
    [r \in DOMAIN table |->
        [c \in DOMAIN table[r] |->
            IF c \in DateColumns /\ table[r][c] # NaN
            THEN FormatDate(table[r][c], DATASETS[dataset_name].date_format)
            ELSE table[r][c]]]

\* _reformat_dates_for_noising, the dtypes: a date column becomes a column
\* of strings
reformatted_dtypes ==
    [c \in DOMAIN dtypes |-> IF c \in DateColumns THEN OBJECT ELSE dtypes[c]]

ReformatDatesForNoising ==
    /\ pc = "reformat"
    /\ data' = _reformat_dates_for_noising(data)
    /\ dtypes' = reformatted_dtypes
    /\ pc' = "noise"
    /\ nt' = FirstApplication.nt
    /\ ci' = FirstApplication.ci
    /\ UNCHANGED <<dataset_name, columns, index, missingness, seed, configuration,
                   draws, error, calls, last_call, input, run, first_output,
                   demographic_probability,
                   input_dtypes, arguments, returned, generators,
                   noise_types, scan>>

-----------------------------------------------------------------------------
(* Row noise *)

Call(name, column) == [noise_type |-> name, column |-> column]

KeyError(key) == [type |-> "KeyError", dataset |-> dataset_name, missing_columns |-> <<key>>]

\* TypeError(f"Invalid noise type. Allowed types are {RowNoiseType} and
\* {ColumnNoiseType}. Provided {type(noise_type)}.")
TypeError(allowed, provided) ==
    [type |-> "TypeError", dataset |-> dataset_name, missing_columns |-> <<>>,
     allowed |-> allowed, provided |-> provided]

\* a row-noise function that writes the chosen rows once more
DuplicateRows(to_noise_idx) ==
    LET copy == {r + MaxRows : r \in to_noise_idx}
    IN /\ index' = index \cup copy
       /\ data' = [r \in index \cup copy |->
                      IF r \in index THEN data[r] ELSE data[r - MaxRows]]

\* the frame a row-noise function returns: the rows outside to_noise_idx
DropRows(to_noise_idx) ==
    /\ index' = index \ to_noise_idx
    /\ data' = [r \in index \ to_noise_idx |-> data[r]]

\* omit_rows: every row is left out with the configured probability
OmitRows ==
    /\ Applying("omit_row")
    /\ calls' = Append(calls, Call("omit_row", "-"))
    /\ IF "omit_row" \notin DOMAIN RowNoiseConfiguration
       THEN /\ Raise(KeyError("omit_row"))
            /\ UNCHANGED <<index, data, draws, last_call>>
       ELSE LET noise_level ==
                    [r \in index |->
                        Thousandths(RowNoiseConfiguration["omit_row"].row_probability)]
                additional_key == <<dataset_name, "omit_choice">>
                eligible == eligible_for_noise_idx({})
            IN \E u \in Draws(additional_key, eligible, noise_level) :
                 LET to_noise_index == filter_for_probability(u, eligible, noise_level)
                 IN /\ DropRows(to_noise_index)
                    /\ draws' = Remember(additional_key, u)
                    /\ last_call' = [noise_type |-> "omit_row", column |-> "-",
                                     to_noise_idx |-> to_noise_index,
                                     noise_function |-> TRUE]
                    /\ Advance
                    /\ UNCHANGED <<pc, error>>
    /\ UNCHANGED <<dataset_name, columns, missingness, seed, configuration, input,
                   run, first_output, demographic_probability, dtypes,
                   input_dtypes, arguments, returned, generators,
                   noise_types, scan>>

CPS == "current_population_survey"
ACS == "american_community_survey"

\* data_values.DEFAULT_DO_NOT_RESPOND_ROW_PROBABILITY
DEFAULT_DO_NOT_RESPOND_ROW_PROBABILITY ==
    [d \in {"decennial_census", ACS, CPS} |-> Frac(145, 10000)]

required_columns == <<"age", "race_ethnicity", "sex">>

\* every required column, missing or not
all_required_columns == required_columns

\* the required columns the table does not have
missing_columns == SelectSeq(required_columns, LAMBDA col : col \notin Range(columns))

\* the demographic model: the base probability and the additions by race and
\* by sex and age, held in [0, 1]; NaN where a lookup finds nothing
_get_census_omission_noise_levels ==
    [r \in index |->
        IF data[r]["race_ethnicity"] \in {NaN, EmptyString} THEN NaNLevel
        ELSE IF data[r]["sex"] \notin {NaN, EmptyString} /\ data[r]["age"] = NaN
             THEN NaNLevel
             ELSE Thousandths(demographic_probability)]

\* what apply_do_not_respond makes of the census level of one row of the
\* dataset name
do_not_respond_noise_level(name, census_level, configured_noise_level) ==
    LET base == IF name = CPS
                THEN FracAdd(census_level, Frac(276, 1000)) ELSE census_level
        default_noise_level == DEFAULT_DO_NOT_RESPOND_ROW_PROBABILITY[name]
        scaled == FracMul(base, FracDiv(configured_noise_level, default_noise_level))
    IN IF name \in {ACS, CPS}
       THEN FracAdd(Frac(1, 2), FracDiv(scaled, Frac(2, 1))) ELSE scaled

\* the levels apply_do_not_respond selects with
do_not_respond_noise_levels(configured_noise_level) ==
    LET census == _get_census_omission_noise_levels
    IN [r \in index |->
           do_not_respond_noise_level(dataset_name, census[r], configured_noise_level)]

\* apply_do_not_respond
ApplyDoNotRespond ==
    /\ Applying("do_not_respond")
    /\ calls' = Append(calls, Call("do_not_respond", "-"))
    /\ IF "do_not_respond" \notin DOMAIN RowNoiseConfiguration
       THEN /\ Raise(KeyError("do_not_respond"))
            /\ UNCHANGED <<index, data, draws, last_call>>
       ELSE IF Len(missing_columns) > 0
       THEN /\ Raise([type |-> "ValueError", dataset |-> dataset_name,
                      missing_columns |-> missing_columns])
            /\ UNCHANGED <<index, data, draws, last_call>>
       ELSE IF dataset_name \notin DOMAIN DEFAULT_DO_NOT_RESPOND_ROW_PROBABILITY
       THEN /\ Raise(KeyError(dataset_name))
            /\ UNCHANGED <<index, data, draws, last_call>>
       ELSE LET noise_levels ==
                    do_not_respond_noise_levels(
                        Thousandths(RowNoiseConfiguration["do_not_respond"].row_probability))
                additional_key == <<"do_not_respond", dataset_name>>
                eligible == eligible_for_noise_idx({})
            IN \E u \in Draws(additional_key, eligible, noise_levels) :
                 LET to_noise_idx == filter_for_probability(u, eligible, noise_levels)
                 IN /\ DropRows(to_noise_idx)
                    /\ draws' = Remember(additional_key, u)
                    /\ last_call' = [noise_type |-> "do_not_respond", column |-> "-",
                                     to_noise_idx |-> to_noise_idx,
                                     noise_function |-> TRUE]
                    /\ Advance
                    /\ UNCHANGED <<pc, error>>
    /\ UNCHANGED <<dataset_name, columns, missingness, seed, configuration, input,
                   run, first_output, demographic_probability, dtypes,
                   input_dtypes, arguments, returned, generators,
                   noise_types, scan>>

-----------------------------------------------------------------------------
(* Column noise *)

\* leave_blanks: the cell becomes NaN
leave_blanks(value) == NaN

\* the noise function of a column-noise type, on one chosen cell; every type
\* but leave_blank gives a string, which is marked here with the type's name
noise_function(name, value) ==
    IF name = "leave_blank" THEN leave_blanks(value) ELSE Append(value, name)

FracMin(a, b) == IF FracLess(b, a) THEN b ELSE a

\* a noise function that rewrites the whole column
ApplyNoiseFunctionToColumn(name, column_name, to_noise_idx) ==
    [r \in index |-> [data[r] EXCEPT ![column_name] = noise_function(name, @)]]

\* a noise function that rewrites every column of the chosen rows
ApplyNoiseFunctionToRows(name, column_name, to_noise_idx) ==
    [r \in index |->
        IF r \in to_noise_idx
        THEN [c \in DOMAIN data[r] |-> noise_function(name, data[r][c])]
        ELSE data[r]]

\* the call of the noise function: the cells of column_name at to_noise_idx
\* are rewritten, every other cell is as it was
ApplyNoiseFunction(name, column_name, to_noise_idx) ==
    [r \in index |->
        IF r \in to_noise_idx
        THEN [data[r] EXCEPT ![column_name] = noise_function(name, @)]
        ELSE data[r]]

\* the dtype a column may have once a noise function has written strings or
\* NaN into some of its cells: the dtype it had, or object
noised_dtypes(dtype_before) == {dtype_before, OBJECT}

\* a wrapper that leaves the column with the dtype the noise function gave it
keep_noised_dtype(dtype_before, dtype_after) == dtype_after

\* the end of ColumnNoiseType.__call__: a column whose dtype has changed is
\* cast back to dtype_before
coerce_back(dtype_before, dtype_after) ==
    IF dtype_after # dtype_before THEN dtype_before ELSE dtype_after

\* the noise functions that noise the tokens of a value with a generator of
\* their own
TokenNoiseTypes ==
    {"write_wrong_zipcode_digits", "write_wrong_digits", "make_phonetic_errors",
     "make_ocr_errors", "make_typos"}

\* rng = np.random.default_rng(randomness_stream.seed) in the noise function
\* name called on column_name: the generator is told by what it is seeded with
default_rng_of(name, column_name) == [seed |-> seed]

\* a wrapper that calls the noise function whatever the index it computed
calls_regardless(to_noise_idx) == TRUE

\* `if to_noise_idx.empty: return`: the noise function is reached otherwise
reaches_noise_function(to_noise_idx) == to_noise_idx # {}

\* ColumnNoiseType.__call__ on the column at position ci of columns_to_noise
ColumnNoise ==
    /\ pc = "noise"
    /\ nt <= Len(noise_types)
    /\ noise_types[nt].kind = ColumnNoiseType
    /\ LET name == noise_types[nt].name
           column_name == columns_to_noise(name)[ci]
           node == ColumnNode(column_name)[name]
           noise_level == FracMin(FracMul(Thousandths(node.cell_probability), Frac(1, 1)),
                                  Frac(1, 1))
           required_cols == {column_name}
           additional_key == <<name, column_name>>
           eligible == eligible_for_noise_idx(required_cols)
       IN /\ calls' = Append(calls, Call(name, column_name))
          /\ IF index = {}
             THEN /\ last_call' = [noise_type |-> name, column |-> column_name,
                                   to_noise_idx |-> {},
                                   noise_function |-> FALSE]
                  /\ UNCHANGED <<data, draws, dtypes, generators>>
             ELSE \E u \in Draws(additional_key, eligible, [r \in index |-> noise_level]) :
                    LET to_noise_idx ==
                            filter_for_probability(u, eligible,
                                                   [r \in index |-> noise_level])
                        dtype_before == dtypes[column_name]
                        called == reaches_noise_function(to_noise_idx)
                    IN /\ data' = IF ~called THEN data
                                  ELSE ApplyNoiseFunction(name, column_name, to_noise_idx)
                       /\ IF ~called THEN UNCHANGED dtypes
                          ELSE \E dtype_after \in noised_dtypes(dtype_before) :
                                 dtypes' = [dtypes EXCEPT ![column_name] =
                                               coerce_back(dtype_before, dtype_after)]
                       /\ draws' = Remember(additional_key, u)
                       /\ generators' =
                              IF called /\ name \in TokenNoiseTypes
                              THEN Append(generators, default_rng_of(name, column_name))
                              ELSE generators
                       /\ last_call' = [noise_type |-> name, column |-> column_name,
                                        to_noise_idx |-> to_noise_idx,
                                        noise_function |-> called]
    /\ Advance
    /\ UNCHANGED <<dataset_name, columns, index, missingness, seed, configuration,
                   pc, error, input, run, first_output, demographic_probability,
                   input_dtypes, arguments, returned, noise_types, scan>>

-----------------------------------------------------------------------------
(* The end of get_noised_data, and a second run *)

\* coerce_dtypes: a column of the schema whose dtype is not the declared one
\* is cast to it (between object and category the cells keep their values)
coerce_dtypes(dts) ==
    [c \in DOMAIN dts |->
        IF c \in Range(DATASETS[dataset_name].columns) /\ SchemaDtype(c) # dts[c]
        THEN SchemaDtype(c) ELSE dts[c]]

\* a table returned with every column it has
keep_every_column(columns_to_keep) == columns

\* the columns of the table that is returned: [c.name for c in dataset.columns]
_extract_columns(columns_to_keep) == columns_to_keep

\* the loop is over: dtypes are coerced and the schema's columns are kept
FinishNoising ==
    /\ pc = "noise"
    /\ nt = Len(noise_types) + 1
    /\ columns' = _extract_columns(DATASETS[dataset_name].columns)
    /\ data' = [r \in index |-> [c \in Range(columns') |-> data[r][c]]]
    /\ dtypes' = [c \in Range(columns') |-> coerce_dtypes(dtypes)[c]]
    /\ pc' = "done"
    /\ UNCHANGED <<dataset_name, index, missingness, seed, configuration, nt, ci,
                   draws, error, calls, last_call, input, run, first_output,
                   demographic_probability,
                   input_dtypes, arguments, returned, generators,
                   noise_types, scan>>

\* _noise_dataset: the else branch of the loop over noise_types
InvalidNoiseType ==
    /\ pc = "noise"
    /\ nt <= Len(noise_types)
    /\ noise_types[nt].kind \notin {RowNoiseType, ColumnNoiseType}
    /\ Raise(TypeError(<<RowNoiseType, ColumnNoiseType>>, noise_types[nt].kind))
    /\ UNCHANGED <<dataset_name, columns, index, data, missingness, seed, configuration,
                   draws, calls, last_call, input, run, first_output,
                   demographic_probability, dtypes,
                   input_dtypes, arguments, returned, generators,
                   noise_types, scan>>

\* the same input is noised once more, with the same seed and configuration
Rerun ==
    /\ pc = "done"
    /\ run = 1
    /\ Construct(dataset_name, input, seed)
    /\ run' = 2
    /\ first_output' = [seed |-> seed, columns |-> columns, index |-> index, data |-> data]
    /\ UNCHANGED <<configuration, draws, input, demographic_probability,
                   input_dtypes, arguments, returned, noise_types, scan>>

Next ==
    \/ CleanInputData
    \/ ReformatDatesForNoising
    \/ OmitRows
    \/ ApplyDoNotRespond
    \/ ColumnNoise
    \/ FinishNoising
    \/ InvalidNoiseType
    \/ Rerun

Spec == Init /\ [][Next]_vars

-----------------------------------------------------------------------------
(* The noise functions, called on their own on a column.  A column is the     *)
(* sequence of its values; a function returns a column or raises.             *)

\* number of values of a column handed to a noise function
MaxValues == 2

\* the numbers of [0, 1) a randomness stream or a generator may give
Uniforms == {Frac(0, 1), Frac(1, 4), Frac(1, 2), Frac(999, 1000)}

\* the sequences over S of length 1 to n
SeqsUpTo(S, n) == UNION {[1..k -> S] : k \in 1..n}

RECURSIVE Sum(_)
Sum(seq) == IF seq = <<>> THEN 0 ELSE Head(seq) + Sum(Tail(seq))

\* a <= b; every comparison with not-a-number is false
FracLeq(a, b) == ~a.nan /\ ~b.nan /\ a.n * b.d <= b.n * a.d

Returned(value) == [type |-> "returned", value |-> value]
Raised(type) == [type |-> type]

\* pmf = weights / weights.sum(): 0 / 0 is not-a-number
pmf_of(weights) ==
    [i \in 1..Len(weights) |->
        IF Sum(weights) = 0 THEN NaNLevel ELSE Frac(weights[i], Sum(weights))]

RECURSIVE cumsum(_)
\* np.cumsum
cumsum(seq) ==
    IF Len(seq) <= 1 THEN seq
    ELSE LET front == cumsum(SubSeq(seq, 1, Len(seq) - 1))
         IN Append(front, FracAdd(front[Len(front)], seq[Len(seq)]))

\* np.searchsorted(cdf, p, side="right") on a sorted array, in which
\* not-a-number sorts after every number: how many entries are <= p
searchsorted_right(cdf, p) == Cardinality({i \in 1..Len(cdf) : FracLeq(cdf[i], p)})

\* vectorized_choice: one choice of options for each draw of probs
\* (n_to_choose = Len(probs)); np.take raises on an index past the end
vectorized_choice(options, weights, probs) ==
    LET pmf == pmf_of(weights)
        cdf == cumsum(pmf)
        chosen_indices == [i \in 1..Len(probs) |-> searchsorted_right(cdf, probs[i])]
    IN IF \E i \in 1..Len(probs) : chosen_indices[i] >= Len(options)
       THEN Raised("IndexError")
       ELSE Returned([i \in 1..Len(probs) |-> options[chosen_indices[i] + 1]])

\* astype(int) of a string of digits
astype_int(str) == Sum([i \in 1..Len(str) |->
                          (CHOOSE d \in 0..9 : Digit(d) = str[i]) * 10 ^ (Len(str) - i)])

\* a negative age that is left negative
keep_negative(new_value) == new_value

\* new_values[new_values < 0] *= -1
reflect_negative(new_value) == IF new_value < 0 THEN new_value * (-1) ELSE new_value

\* an age that is left as it is when it is the original age
allow_original(new_value, original) == new_value

\* new_values[new_values == data.astype(int)] -= 1
avoid_original(new_value, original) ==
    IF new_value = original THEN new_value - 1 ELSE new_value

\* misreport_ages: possible_perturbations is the configured dict, as the
\* sequence of its items
misreport_ages(series, possible_perturbations, probs) ==
    LET keys == [i \in 1..Len(possible_perturbations) |-> possible_perturbations[i][1]]
        values == [i \in 1..Len(possible_perturbations) |-> possible_perturbations[i][2]]
        perturbations == vectorized_choice(keys, values, probs)
    IN IF perturbations.type # "returned" THEN perturbations
       ELSE Returned([i \in 1..Len(series) |->
                avoid_original(
                    reflect_negative(astype_int(series[i]) + perturbations.value[i]),
                    astype_int(series[i]))])

\* list("0123456789")
possible_replacements == [d \in 1..10 |-> Digit(d - 1)]

\* data.str[i] (i counted from 1): the character, NaN past the end of the string
str_get(value, i) == IF value # NaN /\ i <= Len(value) THEN <<value[i]>> ELSE NaN

RECURSIVE str_add(_)
\* the sum of a sequence of strings; a sum with NaN is NaN
str_add(parts) ==
    IF parts = <<>> THEN <<>>
    ELSE LET rest == str_add(Tail(parts))
         IN IF Head(parts) = NaN \/ rest = NaN THEN NaN ELSE Head(parts) \o rest

\* the length of a zipcode
ZipcodeLength == 5

\* a check of the length of the first zipcode only
first_has_wrong_length(series) == series[1] = NaN \/ Len(series[1]) # ZipcodeLength

\* (str_len != 5).sum() > 0
has_wrong_length(series) ==
    \E i \in 1..Len(series) : series[i] = NaN \/ Len(series[i]) # ZipcodeLength

\* write_wrong_zipcode_digits; random and random_digits are what
\* rng.random(shape) and rng.choice(possible_replacements, shape) give
write_wrong_zipcode_digits(series, zipcode_digit_probabilities, random, random_digits) ==
    IF has_wrong_length(series) THEN Raised("ValueError")
    ELSE LET scaleup_factor ==
                 FracDiv(Frac(1, 1), Frac(Len(possible_replacements) - 1,
                                          Len(possible_replacements)))
             digit_probabilities ==
                 [k \in 1..ZipcodeLength |->
                     FracMul(scaleup_factor, Thousandths(zipcode_digit_probabilities[k]))]
             replace == [i \in 1..Len(series) |->
                            [k \in 1..ZipcodeLength |-> FracLess(random[i][k], digit_probabilities[k])]]
             digits(i) == [k \in 1..ZipcodeLength |->
                              IF replace[i][k] THEN <<random_digits[i][k]>>
                              ELSE str_get(series[i], k)]
         IN Returned([i \in 1..Len(series) |-> str_add(digits(i))])

\* astype(str) of a value
astype_str(value) == IF value = NaN THEN <<"n", "a", "n">> ELSE value

\* str.pad(width, side="right")
pad_right(str, width) == str \o [k \in 1..(width - Len(str)) |-> " "]

\* str.isdigit() of a character
isdigit(char) == char \in Range(possible_replacements)

RECURSIVE lstrip(_)
lstrip(str) == IF str # <<>> /\ Head(str) = " " THEN lstrip(Tail(str)) ELSE str

RECURSIVE rstrip(_)
rstrip(str) ==
    IF str # <<>> /\ str[Len(str)] = " " THEN rstrip(SubSeq(str, 1, Len(str) - 1)) ELSE str

\* str.strip(): the whitespace at both ends is removed
strip(str) == lstrip(rstrip(str))

Max(S) == CHOOSE x \in S : \A y \in S : y <= x

\* write_wrong_digits; random and random_digits are what
\* rng.random(is_number.shape) and rng.choice(list("0123456789"), shape) give
write_wrong_digits(series, token_probability, random, random_digits) ==
    IF series = <<>> THEN Returned(series)
    ELSE LET token_noise_level == FracDiv(Thousandths(token_probability), Frac(9, 10))
             strings == [i \in 1..Len(series) |-> astype_str(series[i])]
             longest_str == Max({Len(strings[i]) : i \in 1..Len(strings)})
             same_len_col == [i \in 1..Len(strings) |-> pad_right(strings[i], longest_str)]
             is_number == [i \in 1..Len(strings) |->
                              [k \in 1..longest_str |-> isdigit(same_len_col[i][k])]]
             replace == [i \in 1..Len(strings) |->
                            [k \in 1..longest_str |->
                                FracLess(random[i][k], token_noise_level)
                                    /\ is_number[i][k]]]
             noised_column ==
                 [i \in 1..Len(strings) |->
                     [k \in 1..longest_str |->
                         IF replace[i][k] THEN random_digits[i][k] ELSE same_len_col[i][k]]]
         IN Returned([i \in 1..Len(strings) |-> strip(noised_column[i])])

\* the nickname table: a row for each name, its nicknames from the left, then
\* nulls
nicknames ==
    [name \in {<<"Robert">>, <<"Ann">>} |->
        IF name = <<"Robert">> THEN << <<"Bob">>, <<"Rob">> >>
        ELSE << <<"Annie">>, NaN >>]

\* weights that do not look for the nulls of the row
weights_of_every_slot(row) == [k \in 1..Len(row) |-> Frac(1, Len(row))]

\* two_d_array_choice: weights = not_na * (1 / number_of_options)
weights_of_options(row) ==
    LET number_of_options == Cardinality({k \in 1..Len(row) : row[k] # NaN})
    IN [k \in 1..Len(row) |->
           IF row[k] # NaN THEN Frac(1, number_of_options) ELSE Frac(0, 1)]

\* two_d_array_choice for one value: the option at the number of entries of
\* the cdf that the draw is above
two_d_array_choice(value, options, prob) ==
    LET row == options[value]
        weights == weights_of_options(row)
        total == cumsum(weights)[Len(row)]
        pmf == [k \in 1..Len(row) |-> FracDiv(weights[k], total)]
        cdf == cumsum(pmf)
        choice_index == Cardinality({k \in 1..Len(row) : FracLess(cdf[k], prob)})
    IN row[choice_index + 1]

\* use_nicknames; probs[i] is the draw of the stream for the label of value i
use_nicknames(series, probs) ==
    LET have_nickname_idx == {i \in 1..Len(series) : series[i] \in DOMAIN nicknames}
    IN Returned([i \in 1..Len(series) |->
                    IF i \in have_nickname_idx
                    THEN two_d_array_choice(series[i], nicknames, probs[i])
                    ELSE series[i]])

\* the table of the keys next to a key of the keyboard
qwerty_errors ==
    [token \in {"a", "b"} |-> IF token = "a" THEN <<"q", "s">> ELSE <<"v">>]

\* include_token_probability_level
include_token_probability_level == Frac(1, 10)

\* np.random.default_rng: a generator is the stream of its numbers and a position
default_rng(stream) == [stream |-> stream, position |-> 0]

\* the k-th number the generator gives from where it is (k from 0)
rng_uniform(rng, k) == rng.stream[((rng.position + k) % Len(rng.stream)) + 1]

rng_after(rng, used) == [rng EXCEPT !.position = @ + used]

\* rng.choice(options) with the number u of the generator
rng_choice(options, u) == options[((u.n * Len(options)) \div u.d) + 1]

\* a mistyped character that takes the place of nothing and is not written
typo_without_substitute(token, substitute, keep) == IF keep THEN <<token>> ELSE <<>>

\* what a mistyped character gives: the substitute, and after it the
\* original when it is kept
typo(token, substitute, keep) == <<substitute>> \o (IF keep THEN <<token>> ELSE <<>>)

RECURSIVE keyboard_corrupt(_, _, _, _)
\* make_typos.keyboard_corrupt from the first character of truth on: the
\* noised string and the generator after it
keyboard_corrupt(truth, corrupted_pr, addl_pr, rng) ==
    IF truth = <<>> THEN [err |-> <<>>, rng |-> rng]
    ELSE LET token == Head(truth)
             step ==
                 IF token \in DOMAIN qwerty_errors
                 THEN IF FracLess(rng_uniform(rng, 0), corrupted_pr)
                      THEN [err |-> typo(token,
                                         rng_choice(qwerty_errors[token], rng_uniform(rng, 1)),
                                         FracLess(rng_uniform(rng, 2), addl_pr)),
                            used |-> 3]
                      ELSE [err |-> <<token>>, used |-> 1]
                 ELSE [err |-> <<token>>, used |-> 0]
             rest == keyboard_corrupt(Tail(truth), corrupted_pr, addl_pr,
                                      rng_after(rng, step.used))
         IN [err |-> step.err \o rest.err, rng |-> rest.rng]

RECURSIVE make_typos_from(_, _, _)
\* make_typos, the loop `for idx in data.index`, with one generator
make_typos_from(strings, token_noise_level, rng) ==
    IF strings = <<>> THEN <<>>
    ELSE LET noised_value == keyboard_corrupt(Head(strings), token_noise_level,
                                              include_token_probability_level, rng)
         IN <<noised_value.err>>
                \o make_typos_from(Tail(strings), token_noise_level, noised_value.rng)

\* make_typos; stream is what the generator seeded with the stream's seed gives
make_typos(series, token_probability, stream) ==
    Returned(make_typos_from([i \in 1..Len(series) |-> astype_str(series[i])],
                             Thousandths(token_probability), default_rng(stream)))

-----------------------------------------------------------------------------
(* The per-string scans of make_phonetic_errors, make_ocr_errors, make_typos *)

\* truth[start : stop], with Python's 0-based positions; the slice ends where
\* the string ends
slice(truth, start, stop) ==
    SubSeq(truth, start + 1, IF stop < Len(truth) THEN stop ELSE Len(truth))

\* the tokens of the phonetic table and their substitutes; a substitute
\* written "@" in the table is the empty string
phonetic_error_dict ==
    [token \in {<<"a">>, <<"a", "b">>} |->
        IF token = <<"a">> THEN << <<"e">>, <<>> >> ELSE << <<"p">> >>]

\* the tokens of the OCR table and their substitutes
ocr_error_dict ==
    [token \in {<<"a">>, <<"a", "b">>} |->
        IF token = <<"a">> THEN << <<"o">>, <<"e">> >> ELSE << <<"d">> >>]

phonetic_token_lengths == <<7, 6, 5, 4, 3, 2, 1>>
ocr_token_lengths == <<3, 2, 1>>

RECURSIVE for_token_length(_, _, _, _, _, _)
\* `for token_length in [...]` of phonetic_corrupt and of ocr_corrupt, from
\* the first of token_lengths on, with error_introduced False so far: the
\* lengths rng.uniform() was called for, what is added to err, the new i and
\* the generator after it.  Once an error is introduced nothing more is
\* drawn (ocr_corrupt breaks, phonetic_corrupt tests error_introduced).
for_token_length(error_dict, truth, i, token_lengths, corrupted_pr, rng) ==
    IF token_lengths = <<>>
    THEN [error_introduced |-> FALSE, err |-> <<>>, i |-> i, rng |-> rng, drawn |-> <<>>]
    ELSE LET token_length == Head(token_lengths)
             token == slice(truth, i, i + token_length)
         IN IF token \in DOMAIN error_dict
            THEN IF FracLess(rng_uniform(rng, 0), corrupted_pr)
                 THEN [error_introduced |-> TRUE,
                       err |-> rng_choice(error_dict[token], rng_uniform(rng, 1)),
                       i |-> i + token_length,
                       rng |-> rng_after(rng, 2),
                       drawn |-> <<token_length>>]
                 ELSE LET rest == for_token_length(error_dict, truth, i,
                                                   Tail(token_lengths), corrupted_pr,
                                                   rng_after(rng, 1))
                      IN [rest EXCEPT !.drawn = <<token_length>> \o @]
            ELSE for_token_length(error_dict, truth, i, Tail(token_lengths),
                                  corrupted_pr, rng)

\* a scan that stays where it is when no error is introduced
stay(i) == i

\* `i += 1` after the character is copied
advance_by_one(i) == i + 1

\* one pass of `while i < len(truth)` of phonetic_corrupt and ocr_corrupt on
\* the locals i, err, rng
token_scan_iteration(error_dict, token_lengths, truth, corrupted_pr, locals) ==
    LET tried == for_token_length(error_dict, truth, locals.i, token_lengths,
                                  corrupted_pr, locals.rng)
    IN IF tried.error_introduced
       THEN [i |-> tried.i, err |-> locals.err \o tried.err, rng |-> tried.rng,
             drawn |-> tried.drawn]
       ELSE [i |-> advance_by_one(locals.i),
             err |-> locals.err \o slice(truth, locals.i, locals.i + 1),
             rng |-> tried.rng, drawn |-> tried.drawn]

\* one pass of `while i < len(truth)` of keyboard_corrupt
keyboard_scan_iteration(truth, corrupted_pr, addl_pr, locals) ==
    LET token == slice(truth, locals.i, locals.i + 1)
        rng == locals.rng
    IN IF token # <<>> /\ token[1] \in DOMAIN qwerty_errors
       THEN IF FracLess(rng_uniform(rng, 0), corrupted_pr)
            THEN [i |-> locals.i + 1,
                  err |-> locals.err
                            \o typo(token[1],
                                    rng_choice(qwerty_errors[token[1]], rng_uniform(rng, 1)),
                                    FracLess(rng_uniform(rng, 2), addl_pr)),
                  rng |-> rng_after(rng, 3), drawn |-> <<1>>]
            ELSE [i |-> advance_by_one(locals.i), err |-> locals.err \o token,
                  rng |-> rng_after(rng, 1), drawn |-> <<1>>]
       ELSE [i |-> advance_by_one(locals.i), err |-> locals.err \o token,
             rng |-> rng, drawn |-> <<>>]

-----------------------------------------------------------------------------
(* swap_months_and_days *)

\* a column whose additional_attributes have no date format
NoDateFormat == "-"

\* data.str[start:stop]: NaN where the value is NaN
str_slice(value, start, stop) == IF value = NaN THEN NaN ELSE slice(value, start, stop)

\* month and day written in the order they came in
month_then_day(month, day) == str_add(<<month, day>>)

\* `day + month`
day_then_month(month, day) == str_add(<<day, month>>)

swap_months_and_days(series, date_format) ==
    IF date_format = NoDateFormat THEN Raised("ConfigurationError")
    ELSE IF date_format = YYYYMMDD
    THEN Returned([k \in 1..Len(series) |->
             LET year == str_slice(series[k], 0, 4)
                 month == str_slice(series[k], 4, 6)
                 day == str_slice(series[k], 6, Len(series[k]))
             IN str_add(<<year, day_then_month(month, day)>>)])
    ELSE IF date_format = MM_DD_YYYY
    THEN Returned([k \in 1..Len(series) |->
             LET year == str_slice(series[k], 6, Len(series[k]))
                 month == str_slice(series[k], 0, 3)
                 day == str_slice(series[k], 3, 6)
             IN str_add(<<day_then_month(month, day), year>>)])
    ELSE Raised("ValueError")

-----------------------------------------------------------------------------
(* get_configuration: the configuration tree and its three layers *)

\* Keys.NO_NOISE, Keys.DEFAULT
NO_NOISE == <<"n", "o", "_", "n", "o", "i", "s", "e">>
DEFAULT == <<"d", "e", "f", "a", "u", "l", "t">>

\* str.lower(), on the letters the model's strings are written with
lower_letters ==
    [c \in {"N", "O", "I", "S", "E", "U", "R"} |->
        CASE c = "N" -> "n" [] c = "O" -> "o" [] c = "I" -> "i" [] c = "S" -> "s"
          [] c = "E" -> "e" [] c = "U" -> "u" [] c = "R" -> "r"]

\* a comparison of the string as it is written
as_written(text) == text

lower(text) ==
    [i \in 1..Len(text) |->
        IF text[i] \in DOMAIN lower_letters THEN lower_letters[text[i]] ELSE text[i]]

\* the datasets of the schema, restricted to a row-noise type each and a column
\* with two of its noise types
SchemaDatasets ==
    << [name |-> "decennial_census", row_noise_types |-> <<"do_not_respond">>,
        columns |-> << [name |-> "age", noise_types |-> <<"leave_blank", "make_typos">>] >>],
       [name |-> "taxes_w2_and_1099", row_noise_types |-> <<"omit_row">>,
        columns |-> << [name |-> "ssn",
                        noise_types |-> <<"copy_from_household_member", "make_typos">>] >>] >>

\* the defaults declared on the noise-type descriptors
descriptor_row_probability(noise_type) == Frac(0, 1)
descriptor_cell_probability(noise_type) == Frac(1, 100)
descriptor_additional_parameters(noise_type) ==
    IF noise_type = "make_typos" THEN [token_probability |-> Frac(1, 10)]
    ELSE [key \in {} |-> Frac(0, 1)]

\* the keys of a leaf of the tree, from the dataset down
RowLeaf(dataset, noise_type, key) == <<dataset, "row_noise", noise_type, key>>
ColumnLeaf(dataset, column, noise_type, key) ==
    <<dataset, "column_noise", column, noise_type, key>>

RowLeaves ==
    UNION {{RowLeaf(SchemaDatasets[d].name, SchemaDatasets[d].row_noise_types[n],
                    "row_probability") :
               n \in 1..Len(SchemaDatasets[d].row_noise_types)} :
           d \in 1..Len(SchemaDatasets)}

ColumnLeavesOf(d) ==
    LET dataset == SchemaDatasets[d]
    IN UNION {UNION {{ColumnLeaf(dataset.name, dataset.columns[c].name,
                                 dataset.columns[c].noise_types[n], key) :
                         key \in {"cell_probability"} \cup
                                 DOMAIN descriptor_additional_parameters(
                                            dataset.columns[c].noise_types[n])} :
                     n \in 1..Len(dataset.columns[c].noise_types)} :
              c \in 1..Len(dataset.columns)}

Leaves == RowLeaves \cup UNION {ColumnLeavesOf(d) : d \in 1..Len(SchemaDatasets)}

\* what the descriptor of the leaf's noise type declares for the leaf
DescriptorDefault(leaf) ==
    IF leaf[2] = "row_noise" THEN descriptor_row_probability(leaf[3])
    ELSE IF leaf[5] = "cell_probability" THEN descriptor_cell_probability(leaf[4])
    ELSE descriptor_additional_parameters(leaf[4])[leaf[5]]

IsProbabilityLeaf(leaf) == leaf[Len(leaf)] \in {"row_probability", "cell_probability"}

\* DEFAULT_NOISE_VALUES
DEFAULT_NOISE_VALUES ==
    [leaf \in {RowLeaf("decennial_census", "do_not_respond", "row_probability"),
               RowLeaf("taxes_w2_and_1099", "omit_row", "row_probability"),
               ColumnLeaf("taxes_w2_and_1099", "ssn", "copy_from_household_member",
                          "cell_probability")} |->
        IF leaf[1] = "decennial_census"
        THEN DEFAULT_DO_NOT_RESPOND_ROW_PROBABILITY["decennial_census"]
        ELSE IF leaf[2] = "row_noise" THEN Frac(5, 1000) ELSE Frac(0, 1)]

NoValues == [leaf \in {} |-> Frac(0, 1)]

\* ConfigTree(layers=["baseline", "default", "user"])
ConfigTree == [baseline |-> NoValues, default |-> NoValues, user |-> NoValues]

\* ConfigTree.update(values, layer)
update(tree, values, layer) == [tree EXCEPT ![layer] = values @@ tree[layer]]

\* a lookup that asks the layers from the lowest one up
get_from_lowest_layer(tree, leaf) ==
    IF leaf \in DOMAIN tree.baseline THEN tree.baseline[leaf]
    ELSE IF leaf \in DOMAIN tree.default THEN tree.default[leaf]
    ELSE tree.user[leaf]

\* the value of a leaf of a ConfigTree: that of the outermost layer that has one
tree_get(tree, leaf) ==
    IF leaf \in DOMAIN tree.user THEN tree.user[leaf]
    ELSE IF leaf \in DOMAIN tree.default THEN tree.default[leaf]
    ELSE tree.baseline[leaf]

\* _generate_configuration
_generate_configuration(config_type) ==
    LET baseline_dict ==
            [leaf \in Leaves |->
                IF IsProbabilityLeaf(leaf) /\ config_type = NO_NOISE THEN Frac(0, 1)
                ELSE DescriptorDefault(leaf)]
        noising_configuration == update(ConfigTree, baseline_dict, "baseline")
    IN IF config_type = DEFAULT
       THEN update(noising_configuration, DEFAULT_NOISE_VALUES, "default")
       ELSE noising_configuration

\* a user configuration: None, a dictionary, a pathlib.Path or a string
NoneType == [type |-> "NoneType"]
Dict(values) == [type |-> "dict", value |-> values]
Path(text, file) == [type |-> "Path", value |-> text, file |-> file]
Str(text, file) == [type |-> "str", value |-> text, file |-> file]

\* bool(user_configuration)
truthy(user_configuration) ==
    CASE user_configuration.type = "NoneType" -> FALSE
      [] user_configuration.type = "dict" -> DOMAIN user_configuration.value # {}
      [] OTHER -> Len(user_configuration.value) > 0

\* add_user_configuration: the dictionary, or the one loaded from the file
add_user_configuration(noising_configuration, user_configuration) ==
    LET loaded == IF user_configuration.type \in {"Path", "str"}
                  THEN user_configuration.file ELSE user_configuration.value
    IN update(noising_configuration, loaded, "user")

\* the local variable config_type is not bound
Unbound == <<"unbound">>

\* get_configuration
get_configuration(user_configuration) ==
    LET is_str == user_configuration.type = "str"
        is_no_noise == is_str /\ lower(user_configuration.value) = NO_NOISE
        config_type == IF is_str THEN (IF is_no_noise THEN NO_NOISE ELSE Unbound)
                       ELSE DEFAULT
        user == IF is_no_noise THEN NoneType ELSE user_configuration
    IN IF config_type = Unbound THEN Raised("UnboundLocalError")
       ELSE LET noising_configuration == _generate_configuration(config_type)
            IN IF truthy(user)
               THEN Returned(add_user_configuration(noising_configuration, user))
               ELSE Returned(noising_configuration)

-----------------------------------------------------------------------------
(* What the noise functions are called with *)

\* the largest age of a column of ages
MaxAge == 3

\* the largest number of options of a weighted choice
MaxOptions == 3

\* the columns of at most MaxValues values of S
ColumnsOf(S) == SeqsUpTo(S, MaxValues)

\* what a generator gives for the positions of one value: a row of
\* rng.random(shape) and a row of rng.choice(digits, shape)
RngRows ==
    {[random |-> [k \in 1..ZipcodeLength |-> Frac(0, 1)],
      random_digits |-> [k \in 1..ZipcodeLength |-> "0"]],
     [random |-> [k \in 1..ZipcodeLength |-> Frac(999, 1000)],
      random_digits |-> [k \in 1..ZipcodeLength |-> "7"]],
     [random |-> [k \in 1..ZipcodeLength |->
                     IF k % 2 = 1 THEN Frac(0, 1) ELSE Frac(999, 1000)],
      random_digits |-> [k \in 1..ZipcodeLength |-> "7"]]}

\* the numbers a generator gives, over and over
Streams ==
    {<<Frac(0, 1)>>, <<Frac(999, 1000)>>, <<Frac(0, 1), Frac(999, 1000)>>,
     <<Frac(0, 1), Frac(0, 1), Frac(999, 1000)>>,
     <<Frac(0, 1), Frac(1, 2), Frac(0, 1)>>}

\* possible_age_differences: perturbations that are not 0, with their
\* weights; a list gives its perturbations the same weight, and a perturbation
\* of the defaults that the user does not give has weight 0
PerturbationKeys == ((0 - (2 * MaxAge + 1))..(2 * MaxAge + 1)) \ {0}

PossibleAgeDifferences ==
    {<< <<0 - 2, 1>>, <<0 - 1, 1>>, <<1, 1>> >>,
     << <<0 - 1, 100>>, <<1, 900>> >>}
    \cup {IF k = 1 THEN << <<1, 1>> >> ELSE << <<1, 0>>, <<k, 1>> >> :
             k \in PerturbationKeys}

\* the perturbations that have a weight
YieldedPerturbations(possible_perturbations) ==
    {possible_perturbations[i][1] :
        i \in {j \in 1..Len(possible_perturbations) : possible_perturbations[j][2] > 0}}

\* the draws that tell one choice from another: with one perturbation to
\* choose from, every draw chooses it
ProbsFor(possible_perturbations) ==
    IF Cardinality(YieldedPerturbations(possible_perturbations)) > 1
    THEN Uniforms ELSE {Frac(0, 1)}

MisreportAgesArguments ==
    UNION {{[function |-> "misreport_ages", series |-> ages,
             possible_age_differences |-> cfg, probs |-> probs] :
               probs \in [1..Len(ages) -> ProbsFor(cfg)]} :
           ages \in ColumnsOf({IntToStr(a) : a \in 0..MaxAge}),
           cfg \in PossibleAgeDifferences}

Zipcodes ==
    {<<"0", "2", "1", "3", "9">>, <<"A", "1", "B", "2", "C">>,
     <<"9", "8", "1", "0">>, <<"9", "8", "1", "0", "1", "2">>}

ZipcodeDigitProbabilities == {<<300, 300, 400, 500, 500>>, <<1000, 0, 1000, 0, 900>>}

WriteWrongZipcodeDigitsArguments ==
    UNION {{[function |-> "write_wrong_zipcode_digits", series |-> zipcodes,
             zipcode_digit_probabilities |-> cfg,
             random |-> [i \in 1..Len(zipcodes) |-> rows[i].random],
             random_digits |-> [i \in 1..Len(zipcodes) |-> rows[i].random_digits]] :
               rows \in [1..Len(zipcodes) -> RngRows]} :
           zipcodes \in ColumnsOf(Zipcodes), cfg \in ZipcodeDigitProbabilities}

\* values with digits and other characters, of several lengths, with a space
\* at an end
NumericStrings ==
    {<<"1", "2">>, <<"a", "1">>, <<"1", " ">>, <<" ", "1">>, <<"1", "-", "2">>}

WriteWrongDigitsArguments ==
    UNION {{[function |-> "write_wrong_digits", series |-> values,
             token_probability |-> 500,
             random |-> [i \in 1..Len(values) |-> rows[i].random],
             random_digits |-> [i \in 1..Len(values) |-> rows[i].random_digits]] :
               rows \in [1..Len(values) -> RngRows]} :
           values \in ColumnsOf(NumericStrings)}

Names == {<<"Robert">>, <<"Ann">>, <<"Zed">>, NaN}

UseNicknamesArguments ==
    UNION {{[function |-> "use_nicknames", series |-> names, probs |-> probs] :
               probs \in [1..Len(names) -> Uniforms]} :
           names \in ColumnsOf(Names)}

TypedStrings == {<<"a">>, <<"~">>, <<"~", "a">>, <<"a", "b">>}

MakeTyposArguments ==
    {[function |-> "make_typos", series |-> values, token_probability |-> p,
      stream |-> stream] :
        values \in ColumnsOf(TypedStrings), p \in {500, 1000}, stream \in Streams}

VectorizedChoiceArguments ==
    UNION {{[function |-> "vectorized_choice", options |-> [i \in 1..n |-> i],
             weights |-> weights, probs |-> probs] :
               n \in 1..MaxOptions, probs \in ColumnsOf(Uniforms)} :
           weights \in SeqsUpTo({0, 1}, MaxOptions)}

\* what _get_census_omission_noise_levels gives a row, in thousandths: it
\* holds its result in [0, 1]
CensusLevels == {0, 20, 500, 1000}

\* row_probability as the user may configure it, in thousandths
RowProbabilities == {0, 15, 500, 1000}

DoNotRespondArguments ==
    {[function |-> "apply_do_not_respond", dataset |-> name, census_levels |-> levels,
      row_probability |-> p] :
        name \in DOMAIN DEFAULT_DO_NOT_RESPOND_ROW_PROBABILITY,
        levels \in ColumnsOf(CensusLevels), p \in RowProbabilities}

\* dates with a day that could be a month, with one that could not, and with
\* the day equal to the month
SwappedTimestamps == {<<"T", 1987, 3, 14>>, <<"T", 2020, 12, 5>>, <<"T", 1999, 7, 7>>}

SwapMonthsAndDaysArguments ==
    {[function |-> "swap_months_and_days", series |-> dates, date_format |-> f] :
        dates \in UNION {ColumnsOf({FormatDate(ts, g) : ts \in SwappedTimestamps} \cup {NaN}) :
                            g \in {YYYYMMDD, MM_DD_YYYY}},
        f \in {YYYYMMDD, MM_DD_YYYY, MMDDYYYY, NoDateFormat}}

\* strings with tokens of the tables at their start, inside and at their end
ScannedStrings ==
    {<<"a">>, <<"a", "b">>, <<"x", "a", "b">>, <<"b", "a", "a">>, <<"x", "y">>}

ScanFunctions == {"phonetic_corrupt", "ocr_corrupt", "keyboard_corrupt"}

ScanArguments ==
    {[function |-> f, truth |-> truth, corrupted_pr |-> p, stream |-> stream] :
        f \in ScanFunctions, truth \in ScannedStrings, p \in {500, 1000},
        stream \in Streams}

\* the largest number of leaves a user configuration overrides
MaxOverrides == 2

\* the dictionaries a user gives: a value of their own for some leaves
UserDictionaries ==
    {[leaf \in S |-> Frac(1, 2)] :
        S \in {T \in SUBSET Leaves : Cardinality(T) <= MaxOverrides}}

\* the path of a YAML file
YamlPath == <<"u", "s", "e", "r", ".", "y", "a", "m", "l">>

\* Keys.NO_NOISE as users may write it
NoNoiseSpellings ==
    {NO_NOISE, <<"N", "O", "_", "N", "O", "I", "S", "E">>,
     <<"N", "o", "_", "N", "o", "i", "s", "e">>}

GetConfigurationArguments ==
    {[function |-> "get_configuration", user_configuration |-> user] :
        user \in {NoneType}
                  \cup {Dict(values) : values \in UserDictionaries}
                  \cup {Path(YamlPath, values) : values \in UserDictionaries}
                  \cup {Str(YamlPath, values) : values \in UserDictionaries}
                  \cup {Str(text, NoValues) : text \in NoNoiseSpellings}}

\* nothing is being noised by get_noised_data
EngineIdle ==
    InitWith("decennial_census", AllPresentTable("decennial_census"),
             BuildConfiguration("decennial_census", {}), 500, FALSE)

FunctionInit ==
    /\ EngineIdle
    /\ returned = NotReturned
    /\ arguments \in MisreportAgesArguments \cup WriteWrongZipcodeDigitsArguments
                       \cup WriteWrongDigitsArguments \cup UseNicknamesArguments
                       \cup MakeTyposArguments \cup VectorizedChoiceArguments
                       \cup GetConfigurationArguments \cup ScanArguments
                       \cup SwapMonthsAndDaysArguments \cup DoNotRespondArguments
    \* err = "", i = 0 and the generator the caller made
    /\ scan = IF arguments.function \in ScanFunctions
              THEN [i |-> 0, err |-> <<>>, rng |-> default_rng(arguments.stream),
                    drawn |-> <<>>]
              ELSE NoScan

Calling(function) == arguments.function = function /\ returned = NotReturned

MisreportAges ==
    /\ Calling("misreport_ages")
    /\ returned' = misreport_ages(arguments.series, arguments.possible_age_differences,
                                  arguments.probs)
    /\ UNCHANGED <<engine_vars, arguments, scan>>

WriteWrongZipcodeDigits ==
    /\ Calling("write_wrong_zipcode_digits")
    /\ returned' = write_wrong_zipcode_digits(arguments.series,
                                              arguments.zipcode_digit_probabilities,
                                              arguments.random, arguments.random_digits)
    /\ UNCHANGED <<engine_vars, arguments, scan>>

WriteWrongDigits ==
    /\ Calling("write_wrong_digits")
    /\ returned' = write_wrong_digits(arguments.series, arguments.token_probability,
                                      arguments.random, arguments.random_digits)
    /\ UNCHANGED <<engine_vars, arguments, scan>>

UseNicknames ==
    /\ Calling("use_nicknames")
    /\ returned' = use_nicknames(arguments.series, arguments.probs)
    /\ UNCHANGED <<engine_vars, arguments, scan>>

MakeTypos ==
    /\ Calling("make_typos")
    /\ returned' = make_typos(arguments.series, arguments.token_probability,
                              arguments.stream)
    /\ UNCHANGED <<engine_vars, arguments, scan>>

VectorizedChoice ==
    /\ Calling("vectorized_choice")
    /\ returned' = vectorized_choice(arguments.options, arguments.weights, arguments.probs)
    /\ UNCHANGED <<engine_vars, arguments, scan>>

GetConfiguration ==
    /\ Calling("get_configuration")
    /\ returned' = get_configuration(arguments.user_configuration)
    /\ UNCHANGED <<engine_vars, arguments, scan>>

\* apply_do_not_respond up to the levels it hands to get_index_to_noise
DoNotRespondNoiseLevels ==
    /\ Calling("apply_do_not_respond")
    /\ returned' = Returned([k \in 1..Len(arguments.census_levels) |->
                        do_not_respond_noise_level(
                            arguments.dataset,
                            Thousandths(arguments.census_levels[k]),
                            Thousandths(arguments.row_probability))])
    /\ UNCHANGED <<engine_vars, arguments, scan>>

SwapMonthsAndDays ==
    /\ Calling("swap_months_and_days")
    /\ returned' = swap_months_and_days(arguments.series, arguments.date_format)
    /\ UNCHANGED <<engine_vars, arguments, scan>>

\* the while loop of a scan: one pass, or the return once i is at the end
Scan(iteration) ==
    /\ IF scan.i < Len(arguments.truth)
       THEN /\ scan' = iteration
            /\ UNCHANGED returned
       ELSE /\ returned' = Returned(scan.err)
            /\ UNCHANGED scan
    /\ UNCHANGED <<engine_vars, arguments>>

PhoneticCorrupt ==
    /\ Calling("phonetic_corrupt")
    /\ Scan(token_scan_iteration(phonetic_error_dict, phonetic_token_lengths,
                                 arguments.truth, Thousandths(arguments.corrupted_pr),
                                 scan))

OcrCorrupt ==
    /\ Calling("ocr_corrupt")
    /\ Scan(token_scan_iteration(ocr_error_dict, ocr_token_lengths,
                                 arguments.truth, Thousandths(arguments.corrupted_pr),
                                 scan))

KeyboardCorrupt ==
    /\ Calling("keyboard_corrupt")
    /\ Scan(keyboard_scan_iteration(arguments.truth, Thousandths(arguments.corrupted_pr),
                                    include_token_probability_level, scan))

FunctionNext ==
    \/ MisreportAges
    \/ WriteWrongZipcodeDigits
    \/ WriteWrongDigits
    \/ UseNicknames
    \/ MakeTypos
    \/ VectorizedChoice
    \/ GetConfiguration
    \/ SwapMonthsAndDays
    \/ DoNotRespondNoiseLevels
    \/ PhoneticCorrupt
    \/ OcrCorrupt
    \/ KeyboardCorrupt

FunctionSpec == FunctionInit /\ [][FunctionNext]_vars

\* a scan that has begun is run on: Python leaves no loop half way
FairFunctionSpec ==
    /\ FunctionInit
    /\ [][FunctionNext]_vars
    /\ WF_vars(PhoneticCorrupt)
    /\ WF_vars(OcrCorrupt)
    /\ WF_vars(KeyboardCorrupt)


-----------------------------------------------------------------------------
(* Properties *)

\* the table _noise_dataset starts from: the input, cleaned and with its dates
\* as strings
NoisingInput == _reformat_dates_for_noising(_clean_input_data(input))

IsRowNoiseCall(call) == call.noise_type \in NoiseTypeNames(RowNoiseType)
IsColumnNoiseCall(call) == call.noise_type \in NoiseTypeNames(ColumnNoiseType)

\* a call has been made on the column
Called(name, column) == \E i \in 1..Len(calls) : calls[i] = Call(name, column)

\* the cell carries the mark of the noise type
Marked(value, name) == Len(value) > 0 /\ value[Len(value)] = name

\* C1: the noise types are applied in the order of the catalog, whatever the
\* order of the configuration: of two applications, the earlier one is of a
\* noise type that is not later in NOISE_TYPES than the noise type of the
\* later one.
C1_CatalogOrder ==
    \A i, j \in 1..Len(calls) :
        i < j => CatalogPosition(calls[i].noise_type) <= CatalogPosition(calls[j].noise_type)

\* two column-noise types were applied to two columns, the earlier type to the
\* column the configuration lists last
C1_Witness ==
    /\ pc = "done"
    /\ \E i, j \in 1..Len(calls) :
         /\ i < j
         /\ IsColumnNoiseCall(calls[i])
         /\ CatalogPosition(calls[i].noise_type) < CatalogPosition(calls[j].noise_type)
         /\ IndexOf(ConfiguredColumns, calls[j].column)
              < IndexOf(ConfiguredColumns, calls[i].column)

\* C2: a cell that is missing in the input (NaN or "") is missing in the
\* table at every step of noising and in the output: no noise operation
\* writes a value into it.
C2_MissingnessPreserved ==
    \A r \in index : \A c \in Range(columns) :
        missingness[r][c] => data[r][c] \in {NaN, EmptyString}

\* a column with a missing cell was noised in another row
C2_Witness ==
    /\ pc = "done"
    /\ \E r, r2 \in index : \E c \in Range(columns) :
         /\ missingness[r][c]
         /\ data[r][c] = NaN
         /\ Called("make_typos", c)
         /\ Marked(data[r2][c], "make_typos")

\* leave_blank chose the cell: it had a value in the input and is NaN now
BlankedByLeaveBlank(r, c) ==
    /\ ~missingness[r][c]
    /\ data[r][c] = NaN
    /\ Called("leave_blank", c)

\* C3: a cell that leave_blank has blanked is not chosen and not altered by a
\* later noise type, and is missing in the output: each noise type works on
\* the table as it is when its turn comes.
C3_BlankedCellsStayBlank ==
    [][pc = "noise" =>
         \A r \in index : \A c \in Range(columns) :
             BlankedByLeaveBlank(r, c) =>
                 /\ ~(calls' # calls /\ pc' # "error"
                        /\ last_call'.column = c /\ r \in last_call'.to_noise_idx)
                 /\ (r \in index' /\ c \in Range(columns')) => data'[r][c] = NaN]_vars

\* leave_blank blanked a cell of a column, and make_typos then noised another
\* cell of that column
C3_Witness ==
    /\ pc = "done"
    /\ \E r, r2 \in index : \E c \in Range(columns) :
         /\ BlankedByLeaveBlank(r, c)
         /\ Called("make_typos", c)
         /\ Marked(data[r2][c], "make_typos")

Output == [seed |-> seed, columns |-> columns, index |-> index, data |-> data]

Unconfigured(c) ==
    \A n \in NoiseTypeNames(ColumnNoiseType) : c \notin Range(columns_to_noise(n))

\* C6: a column for which the configuration enables no column-noise type is
\* left as it is by the noise types: in every row that is still there, its
\* value is the value of the input once cleaned and with its dates as strings
\* ("" of a column of the schema is NaN, a date is a string of the dataset's
\* date format).
C6_UnconfiguredColumnUnchanged ==
    pc \in {"noise", "done"} =>
        \A r \in index : \A c \in Range(columns) :
            Unconfigured(c) => data[r][c] = NoisingInput[r][c]

\* C6 as stated: the value in the output is the value in the input.
C6_OutputEqualsInput ==
    pc = "done" =>
        \A r \in index : \A c \in Range(columns) :
            Unconfigured(c) => data[r][c] = input[r][c]

\* row noise removed a row and left another, in which a configured column was
\* noised next to a column that is not configured
C6_Witness ==
    /\ pc = "done"
    /\ index # {}
    /\ index # DOMAIN input
    /\ \E r \in index : \E c, c2 \in Range(columns) :
         /\ Unconfigured(c)
         /\ data[r][c2] # NoisingInput[r][c2]

\* C7: a row-noise type is applied only when the configuration of the dataset
\* lists it under row_noise: a row-noise type that is not listed is never
\* called, and with none listed every row of the input is there.
C7_RowNoiseOnlyWhenListed ==
    /\ \A i \in 1..Len(calls) :
         IsRowNoiseCall(calls[i]) => calls[i].noise_type \in DOMAIN RowNoiseConfiguration
    /\ DOMAIN RowNoiseConfiguration = {} => index = DOMAIN input

\* omit_row is listed and has removed a row, do_not_respond is not listed and
\* was not called
C7_Witness ==
    /\ pc = "done"
    /\ DOMAIN RowNoiseConfiguration = {"omit_row"}
    /\ calls[1] = Call("omit_row", "-")
    /\ index # DOMAIN input
    /\ ~Called("do_not_respond", "-")

\* C8: row noise only removes rows: the rows of the table are rows of the
\* input, and from one step of a run to the next no row is added and the
\* number of rows does not grow.
C8_RowsOnlyRemoved ==
    /\ [](index \subseteq DOMAIN input /\ DOMAIN data = index)
    /\ [][pc' # "clean" =>
            /\ index' \subseteq index
            /\ Cardinality(index') <= Cardinality(index)]_vars

\* omit_row and then do_not_respond have each removed a row
C8_Witness ==
    /\ Len(calls) = 2
    /\ calls[1] = Call("omit_row", "-")
    /\ calls[2] = Call("do_not_respond", "-")
    /\ pc # "error"
    /\ last_call.noise_type = "do_not_respond"
    /\ last_call.to_noise_idx # {}
    /\ Cardinality(index) + 2 <= Cardinality(DOMAIN input)

\* C9: omit_rows with row_probability 0 returns the table it was given, with
\* every row; with row_probability 1 it returns a table with no row.
C9_OmitRowBoundaries ==
    [][(pc = "noise" /\ calls' = Append(calls, Call("omit_row", "-")) /\ pc' # "error") =>
         LET p == RowNoiseConfiguration["omit_row"].row_probability
         IN /\ p = 0 => (index' = index /\ data' = data)
            /\ p = 1000 => (index' = {} /\ DOMAIN data' = {})]_vars

\* omit_rows with row_probability 1 has emptied a table that had rows
C9_Witness ==
    /\ last_call.noise_type = "omit_row"
    /\ RowNoiseConfiguration["omit_row"].row_probability = 1000
    /\ DOMAIN input # {}
    /\ index = {}

\* omit_rows with row_probability 0 has kept every row
C9_WitnessKeepsAll ==
    /\ last_call.noise_type = "omit_row"
    /\ RowNoiseConfiguration["omit_row"].row_probability = 0
    /\ index = DOMAIN input
    /\ index # {}

\* C10: apply_do_not_respond on a table without one of age, race_ethnicity,
\* sex fails with an error that names the dataset and the columns that are
\* missing, and only those; no draw is made and no row is removed.
C10_MissingColumnsError ==
    [][(/\ Applying("do_not_respond")
        /\ calls' # calls
        /\ "do_not_respond" \in DOMAIN RowNoiseConfiguration
        /\ \E c \in {"age", "race_ethnicity", "sex"} : c \notin Range(columns)) =>
         /\ pc' = "error"
         /\ error'.type = "ValueError"
         /\ error'.dataset = dataset_name
         /\ error'.missing_columns =
                SelectSeq(<<"age", "race_ethnicity", "sex">>,
                          LAMBDA c : c \notin Range(columns))
         /\ index' = index
         /\ data' = data
         /\ draws' = draws]_vars

\* the error of a table that has sex and race_ethnicity and no age
C10_Witness ==
    /\ pc = "error"
    /\ error.type = "ValueError"
    /\ error.dataset = "women_infants_and_children"
    /\ error.missing_columns = <<"age">>
    /\ index = DOMAIN input
    /\ index # {}

\* C11: the table get_noised_data returns has exactly the columns of the
\* dataset's schema, in the order the schema declares them, whichever noise
\* types were applied and whatever other columns the input had.
C11_SchemaColumns ==
    pc = "done" =>
        /\ columns = DATASETS[dataset_name].columns
        /\ \A r \in index : DOMAIN data[r] = Range(DATASETS[dataset_name].columns)

\* a table that came with a column the schema does not have was noised and
\* returned with some of its rows
C11_Witness ==
    /\ pc = "done"
    /\ index # {}
    /\ \A r \in DOMAIN input : ExtraColumn \in DOMAIN input[r]
    /\ IsColumnNoiseCall(last_call)
    /\ \E r \in last_call.to_noise_idx :
         data[r][last_call.column] # NoisingInput[r][last_call.column]

\* C12: an application of a column-noise type leaves every column with the
\* dtype it had before (the wrapper casts the noised column back), and in the
\* table that is returned every column has the dtype the schema declares.
C12_DtypeContract ==
    /\ [](pc = "done" =>
            /\ DOMAIN dtypes = Range(columns)
            /\ \A c \in Range(columns) : dtypes[c] = SchemaDtype(c))
    /\ [][(pc = "noise" /\ calls' # calls /\ IsColumnNoiseCall(calls'[Len(calls')]))
            => dtypes' = dtypes]_vars

\* two noise types have written into a categorical column, and a column that
\* was handed in with another dtype than the schema's is returned
C12_Witness ==
    /\ pc = "done"
    /\ Len(calls) = 2
    /\ \E c \in Range(columns) :
         /\ input_dtypes[c] = CATEGORICAL
         /\ SchemaDtype(c) = CATEGORICAL
         /\ calls[1].column = c
         /\ calls[2].column = c
         /\ \E r \in index : Marked(data[r][c], calls[2].noise_type)
    /\ \E c \in Range(columns) : input_dtypes[c] # SchemaDtype(c)

\* misreport_ages has been called and has returned a column
MisreportedAges == arguments.function = "misreport_ages" /\ returned.type = "returned"

\* C13: misreport_ages never gives a negative age: for every age that is not
\* negative and every perturbation possible_age_differences can give, the age
\* after the perturbation, the reflection of a negative sum and the
\* subtraction of 1 from an age equal to the original, is at least 0.
C13_NeverNegativeAge ==
    arguments.function = "misreport_ages" /\ returned # NotReturned =>
        /\ returned.type = "returned"
        /\ Len(returned.value) = Len(arguments.series)
        /\ \A i \in 1..Len(returned.value) : returned.value[i] >= 0

\* an age below the size of its negative perturbation has been reflected
C13_Witness ==
    /\ MisreportedAges
    /\ \E i \in 1..Len(arguments.series) :
          \E k \in YieldedPerturbations(arguments.possible_age_differences) :
              /\ Cardinality(YieldedPerturbations(arguments.possible_age_differences)) = 1
              /\ astype_int(arguments.series[i]) + k < 0
              /\ returned.value[i] = 0 - (astype_int(arguments.series[i]) + k)
              /\ returned.value[i] > 0

\* C14: misreport_ages always changes an age: the returned age differs from
\* the original for every perturbation of the configuration, and where the
\* reflection of the perturbed age gives the original age back, the returned
\* age is the original minus 1.
C14_AlwaysChangesAge ==
    MisreportedAges =>
        \A i \in 1..Len(arguments.series) :
            LET age == astype_int(arguments.series[i])
                yielded == YieldedPerturbations(arguments.possible_age_differences)
            IN /\ returned.value[i] # age
               /\ \A k \in yielded :
                     (yielded = {k} /\ age + k < 0 /\ 0 - (age + k) = age) =>
                         returned.value[i] = age - 1

\* age 1 with perturbation -2 has become 0
C14_Witness ==
    /\ MisreportedAges
    /\ YieldedPerturbations(arguments.possible_age_differences) = {0 - 2}
    /\ \E i \in 1..Len(arguments.series) :
          astype_int(arguments.series[i]) = 1 /\ returned.value[i] = 0

\* C15: write_wrong_zipcode_digits fails with an error, and returns no column,
\* whenever a value of the column is not 5 characters long; when every value
\* is 5 characters long it returns strings of 5 characters, each character the
\* original one or a digit.
C15_ZipcodeLengthChecked ==
    arguments.function = "write_wrong_zipcode_digits" /\ returned # NotReturned =>
        IF \E i \in 1..Len(arguments.series) : Len(arguments.series[i]) # 5
        THEN returned = Raised("ValueError")
        ELSE /\ returned.type = "returned"
             /\ Len(returned.value) = Len(arguments.series)
             /\ \A i \in 1..Len(returned.value) :
                   /\ Len(returned.value[i]) = 5
                   /\ \A k \in 1..5 :
                         \/ returned.value[i][k] = arguments.series[i][k]
                         \/ returned.value[i][k] \in Range(possible_replacements)

\* a column whose first zipcode has 5 characters and whose second has not has
\* been refused
C15_Witness ==
    /\ arguments.function = "write_wrong_zipcode_digits"
    /\ returned = Raised("ValueError")
    /\ Len(arguments.series) = 2
    /\ Len(arguments.series[1]) = 5
    /\ Len(arguments.series[2]) # 5

\* C16: write_wrong_digits preserves the shape of every value: the returned
\* string is as long as the original, also where the original begins or ends
\* with a space and where the values of the column differ in length; a
\* character that is not a digit is returned as it is, and a digit is returned
\* as a digit.
C16_ShapePreserved ==
    arguments.function = "write_wrong_digits" /\ returned.type = "returned" =>
        /\ Len(returned.value) = Len(arguments.series)
        /\ \A i \in 1..Len(arguments.series) :
              /\ Len(returned.value[i]) = Len(arguments.series[i])
              /\ \A k \in 1..Len(arguments.series[i]) :
                    IF isdigit(arguments.series[i][k])
                    THEN isdigit(returned.value[i][k])
                    ELSE returned.value[i][k] = arguments.series[i][k]

\* C17: use_nicknames replaces only the values that are names of the nickname
\* table: a value with no recorded nickname is returned as it is, and a known
\* name is replaced by one of the nicknames recorded for that name, never by a
\* null and never by a nickname of another name.
C17_OnlyKnownNames ==
    arguments.function = "use_nicknames" /\ returned # NotReturned =>
        /\ returned.type = "returned"
        /\ Len(returned.value) = Len(arguments.series)
        /\ \A i \in 1..Len(arguments.series) :
              IF arguments.series[i] \in DOMAIN nicknames
              THEN /\ returned.value[i] # NaN
                   /\ returned.value[i] \in Range(nicknames[arguments.series[i]])
                   /\ \A other \in DOMAIN nicknames \ {arguments.series[i]} :
                         returned.value[i] \notin Range(nicknames[other])
              ELSE returned.value[i] = arguments.series[i]

\* a name whose row of the table ends with a null has got its nickname on a
\* draw near 1, next to a value with no nickname
C17_Witness ==
    /\ arguments.function = "use_nicknames"
    /\ returned.type = "returned"
    /\ \E i, j \in 1..Len(arguments.series) :
          /\ arguments.series[i] = <<"Ann">>
          /\ arguments.probs[i] = Frac(999, 1000)
          /\ returned.value[i] = <<"Annie">>
          /\ arguments.series[j] \notin DOMAIN nicknames
          /\ returned.value[j] = arguments.series[j]

\* what one character may give to the noised string: itself, a key next to
\* it, or a key next to it and then itself
TypoContributions(token) ==
    IF token \in DOMAIN qwerty_errors
    THEN {<<token>>}
            \cup {<<qwerty_errors[token][k]>> : k \in 1..Len(qwerty_errors[token])}
            \cup {<<qwerty_errors[token][k], token>> : k \in 1..Len(qwerty_errors[token])}
    ELSE {<<token>>}

RECURSIVE TypoStrings(_)
\* the strings made of one contribution for each character, from left to right
TypoStrings(str) ==
    IF str = <<>> THEN {<<>>}
    ELSE {first \o rest : first \in TypoContributions(Head(str)),
                          rest \in TypoStrings(Tail(str))}

\* C18: make_typos never shortens a string: each character of the original
\* gives the noised string itself, one substitute, or one substitute and then
\* itself, in the order of the original; the noised string is at least as long
\* as the original, and a character with no entry in the QWERTY table is
\* copied.
C18_NeverShortens ==
    arguments.function = "make_typos" /\ returned # NotReturned =>
        /\ returned.type = "returned"
        /\ Len(returned.value) = Len(arguments.series)
        /\ \A i \in 1..Len(arguments.series) :
              /\ returned.value[i] \in TypoStrings(arguments.series[i])
              /\ Len(returned.value[i]) >= Len(arguments.series[i])
              /\ (\A k \in 1..Len(arguments.series[i]) :
                     arguments.series[i][k] \notin DOMAIN qwerty_errors)
                    => returned.value[i] = arguments.series[i]

\* a string has got a substitute in the place of one character and a
\* substitute before another, and a character without entry has been copied
C18_Witness ==
    /\ arguments.function = "make_typos"
    /\ returned.type = "returned"
    /\ \E i, j \in 1..Len(arguments.series) :
          /\ arguments.series[i] = <<"~", "a">>
          /\ Len(returned.value[i]) = 3
          /\ returned.value[i][1] = "~"
          /\ returned.value[i][3] = "a"
          /\ Len(returned.value[j]) = Len(arguments.series[j])
          /\ returned.value[j] # arguments.series[j]

\* C19: vectorized_choice fails with a configuration error when the weights
\* sum to zero or when there are not as many weights as options, and so never
\* returns a choice made from a cdf of not-a-numbers or from an index past the
\* options; with valid weights every element it returns is one of the options,
\* and never an option of weight 0.
C19_DegenerateWeightsRefused ==
    arguments.function = "vectorized_choice" /\ returned # NotReturned =>
        IF Sum(arguments.weights) = 0 \/ Len(arguments.weights) # Len(arguments.options)
        THEN returned = Raised("ConfigurationError")
        ELSE /\ returned.type = "returned"
             /\ \A i \in 1..Len(returned.value) :
                   \E k \in 1..Len(arguments.options) :
                       /\ returned.value[i] = arguments.options[k]
                       /\ arguments.weights[k] > 0

\* C20: random draws made under different key contexts are different streams
\* of draws, also with the same seed and row labels: the token-level draws of
\* write_wrong_zipcode_digits, write_wrong_digits, make_phonetic_errors,
\* make_ocr_errors and make_typos on a column come from a context with the
\* noise type and the column in it, so two columns, or two noise types, noised
\* in one run do not get the same sequence of draws, i.e. no two of the
\* generators made in a run are seeded alike.
C20_TokenDrawsKeyedByContext ==
    \A i, j \in 1..Len(generators) : i # j => generators[i] # generators[j]

\* get_configuration has been called with a user configuration that is not
\* the NO_NOISE sentinel
CalledGetConfiguration ==
    /\ arguments.function = "get_configuration"
    /\ returned # NotReturned
    /\ ~ (arguments.user_configuration.type = "str"
            /\ arguments.user_configuration.value \in NoNoiseSpellings)

\* the default configuration with the values of a dictionary in the user layer
WithUserLayer(values) ==
    [baseline |-> [leaf \in Leaves |-> DescriptorDefault(leaf)],
     default |-> DEFAULT_NOISE_VALUES,
     user |-> values]

\* C21: get_configuration accepts a user configuration given as the path of a
\* YAML file, a pathlib.Path or a string alike: it raises nothing and returns
\* the default configuration tree with the values of the file in the user
\* layer.
C21_PathOrStringAccepted ==
    CalledGetConfiguration /\ arguments.user_configuration.type \in {"Path", "str"} =>
        returned = Returned(WithUserLayer(arguments.user_configuration.file))

C23_NoNoise ==
    /\ arguments.function = "get_configuration"
    /\ returned # NotReturned
    /\ arguments.user_configuration.type = "str"
    /\ arguments.user_configuration.value \in NoNoiseSpellings
    => /\ returned.type = "returned"
       /\ \A leaf \in Leaves :
             IsProbabilityLeaf(leaf) => tree_get(returned.value, leaf) = Frac(0, 1)
       /\ returned.value.default = NoValues
       /\ returned.value.user = NoValues

\* the sentinel written in capitals has given the tree without noise
C23_Witness ==
    /\ arguments.function = "get_configuration"
    /\ returned.type = "returned"
    /\ arguments.user_configuration.type = "str"
    /\ arguments.user_configuration.value \in NoNoiseSpellings \ {NO_NOISE}
    /\ \E leaf \in DOMAIN DEFAULT_NOISE_VALUES :
          /\ DEFAULT_NOISE_VALUES[leaf] # Frac(0, 1)
          /\ tree_get(returned.value, leaf) = Frac(0, 1)

-----------------------------------------------------------------------------
(* The loop over the noise types and a descriptor of neither kind *)

NeitherKind(n) == noise_types[n].kind \notin {RowNoiseType, ColumnNoiseType}

OtherPosition == CHOOSE n \in 1..Len(noise_types) : NeitherKind(n)

\* C24: a descriptor in the list of noise types that is neither a RowNoiseType
\* nor a ColumnNoiseType is never passed over: the loop does not go beyond it,
\* the call does not return, and the step that reaches it ends the call with
\* a TypeError naming the two allowed types and the type provided.
C24_InvalidNoiseTypeRaises ==
    (\E n \in 1..Len(noise_types) : NeitherKind(n)) =>
        /\ pc # "done"
        /\ pc = "noise" => nt <= OtherPosition
        /\ \A k \in 1..Len(calls) : CatalogPosition(calls[k].noise_type) < OtherPosition
        /\ (pc = "error" /\ nt = OtherPosition) =>
               /\ error.type = "TypeError"
               /\ error.allowed = <<RowNoiseType, ColumnNoiseType>>
               /\ error.provided = noise_types[OtherPosition].kind

\* the descriptor stands after noise types that were applied, and the call
\* ended on it
C24_Witness ==
    /\ \E n \in 1..Len(noise_types) : NeitherKind(n)
    /\ calls # <<>>
    /\ pc = "error"
    /\ nt = OtherPosition
    /\ error.type = "TypeError"

-----------------------------------------------------------------------------
(* The column-noise wrapper when there is nothing to noise *)

\* the step is a call of the wrapper
ColumnNoiseStep ==
    /\ pc = "noise"
    /\ nt <= Len(noise_types)
    /\ noise_types[nt].kind = ColumnNoiseType
    /\ calls' = Append(calls, Call(noise_types[nt].name, columns_to_noise(noise_types[nt].name)[ci]))

\* every cell of the column is missing
AllMissing(column_name) ==
    \A r \in index : data[r][column_name] = NaN \/ data[r][column_name] = EmptyString

\* C25: a call of the column-noise wrapper on an empty column, or one whose
\* to-noise index comes out empty (every cell of the column missing among the
\* cases), does not reach the noise function, raises nothing and leaves the
\* table, its dtypes and the generators made so far as they were.
C25_NothingToNoiseIsNoOp ==
    [][(/\ ColumnNoiseStep
        /\ \/ index = {}
           \/ last_call'.to_noise_idx = {})
       => /\ ~last_call'.noise_function
          /\ data' = data
          /\ index' = index
          /\ columns' = columns
          /\ dtypes' = dtypes
          /\ generators' = generators
          /\ error' = NoError
          /\ pc' = "noise"
          /\ AllMissing(columns_to_noise(noise_types[nt].name)[ci]) =>
                 last_call'.to_noise_idx = {}]_vars

\* the wrapper was called with a cell probability of 1 on a column of a
\* table with rows, every cell of which is missing, and chose nothing
C25_Witness ==
    /\ IsColumnNoiseCall(last_call)
    /\ index # {}
    /\ AllMissing(last_call.column)
    /\ ColumnNode(last_call.column)[last_call.noise_type].cell_probability > 0
    /\ last_call.to_noise_idx = {}
    /\ ~last_call.noise_function
    /\ pc \in {"noise", "done"}

-----------------------------------------------------------------------------
(* The greedy scans of make_phonetic_errors and make_ocr_errors *)

TokenScanning == arguments.function \in {"phonetic_corrupt", "ocr_corrupt"}

ErrorDictOf(function) ==
    IF function = "phonetic_corrupt" THEN phonetic_error_dict ELSE ocr_error_dict

TokenLengthsOf(function) ==
    IF function = "phonetic_corrupt" THEN phonetic_token_lengths ELSE ocr_token_lengths

\* the tokens of the table that stand at position i of truth
TokensAt(function, truth, i) ==
    {token \in DOMAIN ErrorDictOf(function) :
        /\ i + Len(token) <= Len(truth)
        /\ SubSeq(truth, i + 1, i + Len(token)) = token}

\* one pass of the while loop was made
ScanPass == TokenScanning /\ scan' # scan

\* C26: a pass of the greedy scan draws at most once, for the longest token of
\* the table that stands at the position; when the draw succeeds the token is
\* replaced by one of its substitutes and the scan moves on by its length,
\* and otherwise one character is copied and the scan moves on by one without
\* any further draw.
C26_OneDrawPerPosition ==
    [][ScanPass =>
          LET function == arguments.function
              truth == arguments.truth
              tokens == TokensAt(function, truth, scan.i)
              longest == CHOOSE t \in tokens : \A u \in tokens : Len(u) <= Len(t)
              drawn == scan'.drawn
          IN /\ Len(drawn) <= 1
             /\ (tokens = {}) <=> (drawn = <<>>)
             /\ \/ /\ tokens # {}
                   /\ \/ scan'.i = scan.i + Len(longest)
                      \* read through a longer slice at the end of the string
                      \/ /\ scan.i + Len(longest) = Len(truth)
                         /\ scan'.i > Len(truth)
                   /\ \E k \in 1..Len(ErrorDictOf(function)[longest]) :
                         scan'.err = scan.err \o ErrorDictOf(function)[longest][k]
                \/ /\ scan'.i = scan.i + 1
                   /\ scan'.err = scan.err \o <<truth[scan.i + 1]>>]_vars

-----------------------------------------------------------------------------
(* Termination of the per-string scans *)

Scanning == arguments.function \in ScanFunctions

\* C29: the scans of make_phonetic_errors, make_ocr_errors and make_typos
\* end for every string and every outcome of the draws: a pass of the loop is
\* made only while the position is before the end of the string, it moves
\* the position forward, and every scan that is begun returns.
C29_ScansTerminate ==
    /\ [][(Scanning /\ scan' # scan) =>
             /\ scan.i < Len(arguments.truth)
             /\ scan'.i > scan.i]_vars
    /\ Scanning ~> (/\ Scanning
                    /\ returned.type = "returned"
                    /\ scan.i >= Len(arguments.truth))

\* a scan of a string of several characters has returned after draws that
\* corrupted and draws that did not
C29_Witness ==
    /\ Scanning
    /\ returned.type = "returned"
    /\ Len(arguments.truth) >= 2
    /\ scan.i >= Len(arguments.truth)
    /\ scan.rng.position >= 2
    /\ returned.value # arguments.truth
    /\ \E k \in 1..Len(arguments.truth) : k <= Len(returned.value)
                                           /\ returned.value[k] = arguments.truth[k]

-----------------------------------------------------------------------------
(* swap_months_and_days on the two formats it supports *)

CalledSwapMonthsAndDays ==
    arguments.function = "swap_months_and_days" /\ returned # NotReturned

\* the date with its month and its day exchanged
Exchanged(ts) == <<"T", ts[2], ts[4], ts[3]>>

\* C27: swap_months_and_days on a column of YYYYMMDD or of MM/DD/YYYY strings
\* returns, for every date, the string of the same format with month and day
\* exchanged and the year as it was (yyyymmdd -> yyyyddmm, mm/dd/yyyy ->
\* dd/mm/yyyy), of the same length.
C27_MonthAndDayExchanged ==
    (CalledSwapMonthsAndDays /\ arguments.date_format \in {YYYYMMDD, MM_DD_YYYY}) =>
        /\ returned.type = "returned"
        /\ Len(returned.value) = Len(arguments.series)
        /\ \A k \in 1..Len(arguments.series), ts \in SwappedTimestamps :
              arguments.series[k] = FormatDate(ts, arguments.date_format) =>
                  /\ returned.value[k] = FormatDate(Exchanged(ts), arguments.date_format)
                  /\ Len(returned.value[k]) = Len(arguments.series[k])

\* dates of both kinds were swapped: one that changed and one that could not
C27_Witness ==
    /\ CalledSwapMonthsAndDays
    /\ arguments.date_format = MM_DD_YYYY
    /\ Len(arguments.series) = 2
    /\ arguments.series[1] = FormatDate(<<"T", 1987, 3, 14>>, MM_DD_YYYY)
    /\ returned.value[1] = <<"1", "4", "/", "0", "3", "/", "1", "9", "8", "7">>
    /\ arguments.series[2] = FormatDate(<<"T", 1999, 7, 7>>, MM_DD_YYYY)
    /\ returned.value[2] = arguments.series[2]

-----------------------------------------------------------------------------
(* The noise levels of apply_do_not_respond *)

\* C28: the level apply_do_not_respond selects a row with is a probability:
\* for the census, ACS and CPS, every census level in [0, 1] and every
\* configured row_probability in [0, 1] it lies in [0, 1].
C28_NoiseLevelIsProbability ==
    (arguments.function = "apply_do_not_respond" /\ returned # NotReturned) =>
        \A k \in 1..Len(returned.value) :
            /\ FracLeq(Frac(0, 1), returned.value[k])
            /\ FracLeq(returned.value[k], Frac(1, 1))

-----------------------------------------------------------------------------
(* The missingness mask and the table *)

\* C30: at every step after construction (after the input is cleaned, after
\* the dates are reformatted, after each noise application and in the output)
\* the missingness mask has the rows and the columns of the table and flags a
\* cell exactly when its value is NaN or the empty string.
C30_MissingnessMirrorsData ==
    /\ DOMAIN missingness = index
    /\ \A r \in index :
         /\ DOMAIN missingness[r] = Range(columns)
         /\ \A c \in Range(columns) :
               missingness[r][c] <=> (data[r][c] = NaN \/ data[r][c] = EmptyString)

====
